---- MODULE Spec2Model ----
(***************************************************************************)
(* A model of django-css's CleverCSS preprocessor (src/tests/clevercss.py): *)
(* the value model and evaluator, variable resolution, the line-wise        *)
(* structural parser, the selector flattener and the renderer.              *)
(*                                                                          *)
(* Text is modelled as sequences of one-character strings; Python floats    *)
(* are modelled as exact rationals <<numerator, denominator>>.              *)
(***************************************************************************)
EXTENDS Integers, Sequences, FiniteSets, TLC

VARIABLES
    \* ---- value arithmetic (Bin.evaluate on two literals) ----
    opA,        \* left operand, a runtime value
    opB,        \* right operand, a runtime value
    arith,      \* <<operation, outcome>> of the last operation applied, or <<>>
    \* ---- variable resolution (Var.evaluate against a context) ----
    vtable,     \* the evaluation context: name -> expression tree
    vreq,       \* the variable a property expression requests
    vout,       \* outcome of evaluating Var(vreq), or NoOutcome
    vctx,       \* the context after the evaluation
    \* ---- convert(source, context): structural parser, flattener, renderer ----
    pc,         \* "preparse" | "done" | "failed" | "off"
    source,     \* the lines of the source read so far
    context,    \* the override map to_css was called with: name -> raw text
    nlines,     \* lineiter.lineno: number of lines consumed so far
    rules,      \* arena of rule nodes [sel, children, defs]; node 1 is the root
    rule,       \* index of the current rule
    vars,       \* variable table: sequence of <<name, lineno, raw text>>
    indention_stack,
    state_stack,
    group_block_stack,
    rule_stack,
    new_state,
    result,     \* flattened (selectors, defs) pairs, Parser.parse's first result
    level_stack, \* the `stack` of Parser.parse when the flattening ended
    real_vars,  \* Parser.parse's second result: name -> expression tree
    evaluated,  \* the (selectors, rendered defs) pairs Engine.evaluate yielded
    css,        \* the text Engine.to_css returned
    error,      \* the exception that ended the call, or NoOutcome
    \* ---- LineIterator: the scanner in front of the structural parser ----
    li_lines,   \* source.splitlines(): the physical lines
    li_lineno,  \* self.lineno: the number of physical lines consumed
    li_emit_endmarker,
    start_lineno, \* the local of _next: where the open block comment began, or 0
    li_out,     \* the (lineno, line) pairs next() has returned so far
    li_error,   \* the exception next() raised, or NoOutcome
    li_pc,      \* "iterating" | "stopped" | "failed" | "off"
    \* ---- compressor (Compressor, CssCompressor, JsCompressor) ----
    cp_kind,    \* "css" | "js": the class of the compressor; "off" when idle
    cp_block,   \* the elements of the block, in document order
    DEBUG,      \* django_settings.DEBUG
    cp_filters, \* whether self.filters holds a filter
    compiler_ok,    \* whether the configured CSS compiler exits with 0
    source_newer,   \* whether a source file is newer than its compiled file
    compiled_files, \* the compiled files on disk
    split_content,  \* self.split_content
    _hunks,     \* self._hunks: [set, v]
    _output,    \* self._output: [set, v]
    cp_ret,     \* the last call on the compressor and what it returned or raised
    cp_calls,   \* the number of calls made
    \* ---- expression parser (Parser.parse_expr on one expression) ----
    ex_terms,   \* the operands of the expression, as written
    ex_ops,     \* the operators between them, as written
    ex_tail,    \* what is written behind the last operand
    ex_tree,    \* what parse_expr returned or raised, or NoOutcome
    ex_value,   \* what the tree evaluated to, or NoOutcome
    ex_pc,      \* "parse" | "evaluate" | "done" | "off"
    \* ---- CompressorNode.render, concurrent renders of one cache key ----
    rn_pc,      \* where each render stands
    rn_ret,     \* what each render returned: "html", "None", or "" so far
    cache_output,   \* the cache entry under compressor.cachekey, or "absent"
    cache_flag,     \* the entry under in_progress_key: "true", "false", "absent"
    flag_lost   \* whether a flag expired or was evicted under a running build

arithVars == <<opA, opB, arith>>
varVars == <<vtable, vreq, vout, vctx>>
preparseVars == <<rules, rule, vars, indention_stack, state_stack,
                  group_block_stack, rule_stack, new_state>>
cssVars == <<pc, source, context, nlines, preparseVars, result, level_stack, real_vars,
             evaluated, css, error>>
scanVars == <<li_lines, li_lineno, li_emit_endmarker, start_lineno, li_out,
              li_error, li_pc>>
\* The variables of the parts added behind the first three.
compVars == <<cp_kind, cp_block, DEBUG, cp_filters, compiler_ok, source_newer,
              compiled_files, split_content, _hunks, _output, cp_ret, cp_calls>>
exprVars == <<ex_terms, ex_ops, ex_tail, ex_tree, ex_value, ex_pc>>
renderVars == <<rn_pc, rn_ret, cache_output, cache_flag, flag_lost>>
restVars == <<scanVars, compVars, exprVars, renderVars>>
allVars == <<arithVars, varVars, cssVars, restVars>>

NoOutcome == [t |-> "none"]

\* A local binding: the body K sees the value v under one name, and the
\* value is computed once.
With(v, K(_)) == K(v)

(***************************************************************************)
(* Bounds of the model.                                                     *)
(***************************************************************************)
MaxMag == 2         \* operand magnitudes range over 0..MaxMag
MaxLines == 5       \* lines fed to the structural parser
MaxVars == 2        \* variables of the table in the resolution specification
MaxIndent == 2      \* lines are indented by 0..MaxIndent spaces

(***************************************************************************)
(* Exact rational arithmetic standing in for Python floats.                 *)
(***************************************************************************)
AbsInt(n) == IF n < 0 THEN -n ELSE n

RECURSIVE GCD(_, _)
GCD(a, b) == IF b = 0 THEN a ELSE GCD(b, a % b)

Rat(n, d) ==
    LET g == GCD(AbsInt(n), AbsInt(d))
        s == IF d < 0 THEN -1 ELSE 1
    IN  <<(s * n) \div g, (s * d) \div g>>

RInt(n) == <<n, 1>>
RAdd(p, q) == Rat(p[1] * q[2] + q[1] * p[2], p[2] * q[2])
RSub(p, q) == Rat(p[1] * q[2] - q[1] * p[2], p[2] * q[2])
RMul(p, q) == Rat(p[1] * q[1], p[2] * q[2])
RDiv(p, q) == Rat(p[1] * q[2], p[2] * q[1])
RNeg(p) == <<-p[1], p[2]>>
RLt(p, q) == p[1] * q[2] < q[1] * p[2]
RIsZero(p) == p[1] = 0
RFloor(p) == p[1] \div p[2]
\* Python's float %: the result takes the sign of the divisor.
RMod(p, q) == RSub(p, RMul(q, RInt(RFloor(RDiv(p, q)))))
\* int(x): truncation toward zero.
RTrunc(p) == IF p[1] >= 0 THEN p[1] \div p[2] ELSE -((-p[1]) \div p[2])
\* round(x): half away from zero (Python 2).
RRound(p) ==
    IF p[1] >= 0 THEN (2 * p[1] + p[2]) \div (2 * p[2])
    ELSE -((2 * (-p[1]) + p[2]) \div (2 * p[2]))

(***************************************************************************)
(* Units and conversions.                                                   *)
(***************************************************************************)
_conv ==
    [length |-> [mm |-> Rat(1, 1), cm |-> Rat(10, 1), in |-> Rat(127, 5),
                 pt |-> Rat(127, 360), pc |-> Rat(127, 30)],
     time   |-> [ms |-> Rat(1, 1), s |-> Rat(1000, 1)],
     freq   |-> [Hz |-> Rat(1, 1), kHz |-> Rat(1000, 1)]]

\* _conv_mapping.get(unit): the family of a convertible unit, None otherwise.
_conv_mapping(unit) ==
    IF unit \in DOMAIN _conv.length THEN "length"
    ELSE IF unit \in DOMAIN _conv.time THEN "time"
    ELSE IF unit \in DOMAIN _conv.freq THEN "freq"
    ELSE "None"

(***************************************************************************)
(* Runtime values and exceptions.  lineno 0 stands for None.                *)
(***************************************************************************)
Number(value, lineno) == [t |-> "Number", value |-> value, lineno |-> lineno]
Value(value, unit, lineno) ==
    [t |-> "Value", value |-> value, unit |-> unit, lineno |-> lineno]
Color(value, lineno) ==
    [t |-> "Color", value |-> value, from_name |-> FALSE, lineno |-> lineno]
String(value, lineno) == [t |-> "String", value |-> value, lineno |-> lineno]
URL(value, lineno) == [t |-> "URL", value |-> value, lineno |-> lineno]
\* The two composites hold expression trees; evaluating one yields itself.
ImplicitConcat(nodes, lineno) ==
    [t |-> "ImplicitConcat", nodes |-> nodes, lineno |-> lineno]
List(items, lineno) == [t |-> "List", items |-> items, lineno |-> lineno]
RGB(rgb, lineno) == [t |-> "RGB", rgb |-> rgb, lineno |-> lineno]

EvalException(lineno, message) ==
    [t |-> "EvalException", lineno |-> lineno, message |-> message]
ParserError(lineno, message) ==
    [t |-> "ParserError", lineno |-> lineno, message |-> message]
\* An exception that is neither of the two error kinds of the program
\* (TypeError, NameError, ...): the interpreter raises it.
PythonError(kind, message) ==
    [t |-> kind, lineno |-> 0, message |-> message]

IsExc(x) == x.t \in {"EvalException", "ParserError", "TypeError", "NameError"}

\* The class attribute `name` used in messages.
ExprName(x) ==
    CASE x.t = "Number" -> "number"
      [] x.t = "Value" -> "value"
      [] x.t = "Color" -> "color"
      [] x.t = "String" -> "string"
      [] x.t = "URL" -> "URL"
      [] x.t = "ImplicitConcat" -> "concatenated"
      [] x.t = "List" -> "list"
      [] OTHER -> "expression"

(***************************************************************************)
(* Text: sequences of one-character strings.                                *)
(***************************************************************************)
DigitChars == <<"0", "1", "2", "3", "4", "5", "6", "7", "8", "9">>
HexChars == DigitChars \o <<"a", "b", "c", "d", "e", "f">>
Whitespace == {" ", "\t", "\n"}

RECURSIVE Digits(_)
Digits(n) ==
    IF n < 10 THEN <<DigitChars[n + 1]>>
    ELSE Digits(n \div 10) \o <<DigitChars[(n % 10) + 1]>>

\* The first k decimals of rem/den (0 <= rem < den), by long division.
RECURSIVE FracDigits(_, _, _)
FracDigits(rem, den, k) ==
    IF k = 0 THEN <<>>
    ELSE <<(rem * 10) \div den>> \o FracDigits((rem * 10) % den, den, k - 1)

RECURSIVE DropTrailingZeros(_)
DropTrailingZeros(ds) ==
    IF ds # <<>> /\ ds[Len(ds)] = 0
    THEN DropTrailingZeros(SubSeq(ds, 1, Len(ds) - 1))
    ELSE ds

\* unicode(float) for magnitudes printed in fixed notation: the first twelve
\* significant digits, trailing zeros dropped, ".0" for whole numbers.
FloatText(p) ==
    LET n == AbsInt(p[1])
        whole == Digits(n \div p[2])
        places == IF n \div p[2] = 0 THEN 12 ELSE 12 - Len(whole)
        frac == DropTrailingZeros(FracDigits(n % p[2], p[2], places))
        sign == IF p[1] < 0 THEN <<"-">> ELSE <<>>
    IN  sign \o whole \o <<".">> \o
        (IF frac = <<>> THEN <<"0">>
         ELSE [i \in 1..Len(frac) |-> DigitChars[frac[i] + 1]])

\* value.rsplit('.'): the text before and after the only '.' of a float.
number_repr(value) ==
    LET text == FloatText(value)
        dot == CHOOSE i \in 1..Len(text) : text[i] = "."
        parts == <<SubSeq(text, 1, dot - 1), SubSeq(text, dot + 1, Len(text))>>
    IN  IF parts[2] = <<"0">> THEN parts[1] ELSE text

RECURSIVE LStrip(_)
LStrip(s) ==
    IF s # <<>> /\ s[1] \in Whitespace THEN LStrip(Tail(s)) ELSE s

RECURSIVE RStrip(_)
RStrip(s) ==
    IF s # <<>> /\ s[Len(s)] \in Whitespace
    THEN RStrip(SubSeq(s, 1, Len(s) - 1))
    ELSE s

Strip(s) == LStrip(RStrip(s))

RECURSIVE Escape(_)
Escape(s) ==
    IF s = <<>> THEN <<>>
    ELSE (IF s[1] \in {"\\", "\n", "\t", "'"} THEN <<"\\", s[1]>> ELSE <<s[1]>>)
         \o Escape(Tail(s))

\* Literal.to_string on text: quoted and escaped when it holds two words.
LiteralText(rv) ==
    IF \E i \in 1..Len(Strip(rv)) : Strip(rv)[i] \in Whitespace
    THEN <<"'">> \o Escape(rv) \o <<"'">>
    ELSE rv

UnitText(unit) ==
    CASE unit = "mm" -> <<"m", "m">>
      [] unit = "cm" -> <<"c", "m">>
      [] unit = "in" -> <<"i", "n">>
      [] unit = "pt" -> <<"p", "t">>
      [] unit = "pc" -> <<"p", "c">>
      [] unit = "ms" -> <<"m", "s">>
      [] unit = "s" -> <<"s">>
      [] unit = "Hz" -> <<"H", "z">>
      [] unit = "kHz" -> <<"k", "H", "z">>
      [] unit = "px" -> <<"p", "x">>
      [] unit = "em" -> <<"e", "m">>
      [] unit = "ex" -> <<"e", "x">>
      [] unit = "deg" -> <<"d", "e", "g">>
      [] unit = "radgrad" -> <<"r", "a", "d", "g", "r", "a", "d">>
      [] unit = "%" -> <<"%">>

\* '%02x' of one channel.
Hex2(n) ==
    IF n < 0 THEN <<"-">> \o (IF -n < 16 THEN <<HexChars[(-n) + 1]>>
                              ELSE <<HexChars[((-n) \div 16) + 1],
                                     HexChars[((-n) % 16) + 1]>>)
    ELSE IF n < 256 THEN <<HexChars[(n \div 16) + 1], HexChars[(n % 16) + 1]>>
    ELSE <<HexChars[(n \div 256) + 1], HexChars[((n \div 16) % 16) + 1],
           HexChars[(n % 16) + 1]>>

\* Color literals by name (a part of the table of the source).
_colors ==
    [black |-> <<"#", "0", "0", "0", "0", "0", "0">>,
     white |-> <<"#", "f", "f", "f", "f", "f", "f">>,
     red   |-> <<"#", "f", "f", "0", "0", "0", "0">>]

NameText(name) ==
    CASE name = "black" -> <<"b", "l", "a", "c", "k">>
      [] name = "white" -> <<"w", "h", "i", "t", "e">>
      [] name = "red" -> <<"r", "e", "d">>

\* _reverse_colors.get(code): the name of a code, or <<>> for None.
_reverse_colors(code) ==
    IF \E k \in DOMAIN _colors : _colors[k] = code
    THEN NameText(CHOOSE k \in DOMAIN _colors : _colors[k] = code)
    ELSE <<>>

\* to_string of an evaluated literal (Number, Value, Color, String, URL).
ValueToString(x) ==
    CASE x.t = "Number" -> number_repr(x.value)
      [] x.t = "Value" -> number_repr(x.value) \o UnitText(x.unit)
      [] x.t = "Color" ->
            LET code == <<"#">> \o Hex2(x.value[1]) \o Hex2(x.value[2])
                              \o Hex2(x.value[3])
            IN  IF x.from_name /\ _reverse_colors(code) # <<>>
                THEN _reverse_colors(code) ELSE code
      [] x.t = "String" -> LiteralText(x.value)
      [] x.t = "URL" -> <<"u", "r", "l", "(">> \o LiteralText(x.value) \o <<")">>

(***************************************************************************)
(* Expr: the base class's operators, the fallbacks of every variant.        *)
(***************************************************************************)
RECURSIVE to_string(_, _)

\* String(self.to_string(context) + other.to_string(context)); a composite
\* operand evaluates its parts while it is rendered, and may raise.
Expr_add(self, other, ctx) ==
    With(to_string(self, ctx), LAMBDA a :
      IF IsExc(a) THEN a
      ELSE With(to_string(other, ctx), LAMBDA b :
             IF IsExc(b) THEN b ELSE String(a.value \o b.value, 0)))

Expr_sub(self, other) ==
    EvalException(self.lineno,
                  <<"cannot substract %s from %s", ExprName(self), ExprName(other)>>)

Expr_mul(self, other) ==
    EvalException(self.lineno,
                  <<"cannot multiply %s with %s", ExprName(self), ExprName(other)>>)

Expr_div(self, other) ==
    EvalException(self.lineno,
                  <<"cannot divide %s by %s", ExprName(self), ExprName(other)>>)

Expr_mod(self, other) ==
    EvalException(self.lineno,
                  <<"cannot use the modulo operator for %s and %s. Misplaced unit symbol?",
                    ExprName(self), ExprName(other)>>)

\* operator.add / operator.sub / operator.mul on floats.
Calc(calc, a, b) ==
    CASE calc = "add" -> RAdd(a, b)
      [] calc = "sub" -> RSub(a, b)
      [] calc = "mul" -> RMul(a, b)

\* The fallback handed to _conv_calc: Literal.add or Literal.sub.
Fallback(calc, self, other, ctx) ==
    IF calc = "add" THEN Expr_add(self, other, ctx) ELSE Expr_sub(self, other)

(***************************************************************************)
(* Number                                                                   *)
(***************************************************************************)
Number_add(self, other, ctx) ==
    IF other.t = "Number"
    THEN Number(RAdd(self.value, other.value), self.lineno)
    ELSE IF other.t = "Value"
    THEN Value(RAdd(self.value, other.value), other.unit, self.lineno)
    ELSE Expr_add(self, other, ctx)

Number_sub(self, other) ==
    IF other.t = "Number"
    THEN Number(RSub(self.value, other.value), self.lineno)
    ELSE IF other.t = "Value"
    THEN Value(RSub(self.value, other.value), other.unit, self.lineno)
    ELSE Expr_sub(self, other)

Number_mul(self, other) ==
    IF other.t = "Number"
    THEN Number(RMul(self.value, other.value), self.lineno)
    ELSE IF other.t = "Value"
    THEN Value(RMul(self.value, other.value), other.unit, self.lineno)
    ELSE Expr_mul(self, other)

\* The try block catches ZeroDivisionError and raises the evaluation error.
Number_div(self, other) ==
    IF other.t \in {"Number", "Value"} /\ RIsZero(other.value)
    THEN EvalException(self.lineno, <<"cannot divide by zero">>)
    ELSE IF other.t = "Number"
    THEN Number(RDiv(self.value, other.value), self.lineno)
    ELSE IF other.t = "Value"
    THEN Value(RDiv(self.value, other.value), other.unit, self.lineno)
    ELSE Expr_div(self, other)

Number_mod(self, other) ==
    IF other.t \in {"Number", "Value"} /\ RIsZero(other.value)
    THEN EvalException(self.lineno, <<"cannot divide by zero">>)
    ELSE IF other.t = "Number"
    THEN Number(RMod(self.value, other.value), self.lineno)
    ELSE IF other.t = "Value"
    THEN Value(RMod(self.value, other.value), other.unit, self.lineno)
    ELSE Expr_mod(self, other)

(***************************************************************************)
(* Value                                                                    *)
(***************************************************************************)
\* _conv_calc with the comparison of the two conversion factors reversed.
Value__conv_calc_reversed(self, other, ctx, calc) ==
    IF other.t = "Number"
    THEN Value(Calc(calc, self.value, other.value), self.unit, 0)
    ELSE IF other.t = "Value"
    THEN IF self.unit = other.unit
         THEN Value(Calc(calc, self.value, other.value), other.unit, self.lineno)
         ELSE LET self_unit_type == _conv_mapping(self.unit)
                  other_unit_type == _conv_mapping(other.unit)
              IN  IF self_unit_type = "None" \/ other_unit_type = "None"
                     \/ self_unit_type # other_unit_type
                  THEN EvalException(self.lineno,
                         <<IF calc = "add" THEN "cannot add %s and %s"
                           ELSE "cannot subtract %s from %s",
                           self.unit, other.unit,
                           " because the two units are not compatible.">>)
                  ELSE LET self_unit == _conv[self_unit_type][self.unit]
                           other_unit == _conv[other_unit_type][other.unit]
                       IN  IF RLt(self_unit, other_unit)
                           THEN Value(Calc(calc,
                                           RMul(RDiv(self.value, other_unit), self_unit),
                                           other.value),
                                      other.unit, self.lineno)
                           ELSE Value(Calc(calc,
                                           RMul(RDiv(other.value, self_unit), other_unit),
                                           self.value),
                                      self.unit, self.lineno)
    ELSE Fallback(calc, self, other, ctx)

Value__conv_calc(self, other, ctx, calc) ==
    IF other.t = "Number"
    THEN Value(Calc(calc, self.value, other.value), self.unit, 0)
    ELSE IF other.t = "Value"
    THEN IF self.unit = other.unit
         THEN Value(Calc(calc, self.value, other.value), other.unit, self.lineno)
         ELSE LET self_unit_type == _conv_mapping(self.unit)
                  other_unit_type == _conv_mapping(other.unit)
              IN  IF self_unit_type = "None" \/ other_unit_type = "None"
                     \/ self_unit_type # other_unit_type
                  THEN EvalException(self.lineno,
                         <<IF calc = "add" THEN "cannot add %s and %s"
                           ELSE "cannot subtract %s from %s",
                           self.unit, other.unit,
                           " because the two units are not compatible.">>)
                  ELSE LET self_unit == _conv[self_unit_type][self.unit]
                           other_unit == _conv[other_unit_type][other.unit]
                       IN  IF RLt(other_unit, self_unit)
                           THEN Value(Calc(calc,
                                           RMul(RDiv(self.value, other_unit), self_unit),
                                           other.value),
                                      other.unit, self.lineno)
                           ELSE Value(Calc(calc,
                                           RMul(RDiv(other.value, self_unit), other_unit),
                                           self.value),
                                      self.unit, self.lineno)
    ELSE Fallback(calc, self, other, ctx)

Value_add(self, other, ctx) == Value__conv_calc(self, other, ctx, "add")

Value_sub(self, other, ctx) == Value__conv_calc(self, other, ctx, "sub")

Value_mul(self, other) ==
    IF other.t = "Number"
    THEN Value(RMul(self.value, other.value), self.unit, self.lineno)
    ELSE Expr_mul(self, other)

\* The handler of ZeroDivisionError calls EvalException with a keyword
\* argument `lineno` its constructor does not take: a TypeError is raised.
Value_div(self, other) ==
    IF other.t = "Number"
    THEN IF RIsZero(other.value)
         THEN PythonError("TypeError",
                <<"__init__() got an unexpected keyword argument 'lineno'">>)
         ELSE Value(RDiv(self.value, other.value), self.unit, self.lineno)
    ELSE Expr_div(self, other)

Value_mod(self, other) ==
    IF other.t = "Number"
    THEN IF RIsZero(other.value)
         THEN EvalException(self.lineno, <<"cannot divide by zero">>)
         ELSE Value(RMod(self.value, other.value), self.unit, self.lineno)
    ELSE Expr_mod(self, other)

(***************************************************************************)
(* Color                                                                    *)
(***************************************************************************)
RMax(p, q) == IF RLt(p, q) THEN q ELSE p
RMin(p, q) == IF RLt(p, q) THEN p ELSE q
RLe(p, q) == ~RLt(q, p)

\* colorsys.rgb_to_hls on channels in 0..1; the result is <<h, l, s>>.
colorsys_rgb_to_hls(r, g, b) ==
    LET maxc == RMax(r, RMax(g, b))
        minc == RMin(r, RMin(g, b))
        l == RDiv(RAdd(minc, maxc), RInt(2))
        span == RSub(maxc, minc)
        s == IF RLe(l, Rat(1, 2)) THEN RDiv(span, RAdd(maxc, minc))
             ELSE RDiv(span, RSub(RSub(RInt(2), maxc), minc))
        rc == RDiv(RSub(maxc, r), span)
        gc == RDiv(RSub(maxc, g), span)
        bc == RDiv(RSub(maxc, b), span)
        h == IF r = maxc THEN RSub(bc, gc)
             ELSE IF g = maxc THEN RSub(RAdd(RInt(2), rc), bc)
             ELSE RSub(RAdd(RInt(4), gc), rc)
    IN  IF minc = maxc THEN <<RInt(0), l, RInt(0)>>
        ELSE <<RMod(RDiv(h, RInt(6)), RInt(1)), l, s>>

colorsys_v(m1, m2, hue0) ==
    LET hue == RMod(hue0, RInt(1))
    IN  IF RLt(hue, Rat(1, 6))
        THEN RAdd(m1, RMul(RMul(RSub(m2, m1), hue), RInt(6)))
        ELSE IF RLt(hue, Rat(1, 2)) THEN m2
        ELSE IF RLt(hue, Rat(2, 3))
        THEN RAdd(m1, RMul(RMul(RSub(m2, m1), RSub(Rat(2, 3), hue)), RInt(6)))
        ELSE m1

\* colorsys.hls_to_rgb; the result is <<r, g, b>> in 0..1.
colorsys_hls_to_rgb(h, l, s) ==
    LET m2 == IF RLe(l, Rat(1, 2)) THEN RMul(l, RAdd(RInt(1), s))
              ELSE RSub(RAdd(l, s), RMul(l, s))
        m1 == RSub(RMul(RInt(2), l), m2)
    IN  IF RIsZero(s) THEN <<l, l, l>>
        ELSE <<colorsys_v(m1, m2, RAdd(h, Rat(1, 3))),
               colorsys_v(m1, m2, h),
               colorsys_v(m1, m2, RSub(h, Rat(1, 3)))>>

rgb_to_hls(red, green, blue) ==
    colorsys_rgb_to_hls(Rat(red, 255), Rat(green, 255), Rat(blue, 255))

hls_to_rgb(hue, saturation, lightness) ==
    LET tt == colorsys_hls_to_rgb(hue, saturation, lightness)
    IN  [i \in 1..3 |-> RRound(RMul(tt[i], RInt(255)))]

\* amount is a runtime value, or NoOutcome when the call gives no argument.
brighten_color(color, amount0) ==
    LET amount == IF amount0 = NoOutcome THEN Value(RInt(10), "%", 0) ELSE amount0
        hls == rgb_to_hls(color.value[1], color.value[2], color.value[3])
        lightness ==
            IF amount.t = "Value"
            THEN RMul(hls[2], RAdd(RInt(1), RDiv(amount.value, RInt(100))))
            ELSE IF amount.t = "Number"
            THEN RAdd(hls[2], RDiv(amount.value, RInt(100)))
            ELSE hls[2]
        clamped == IF RLt(RInt(1), lightness) THEN RInt(1) ELSE lightness
    IN  IF amount.t = "Value" /\ amount.unit = "%" /\ RIsZero(amount.value)
        THEN color
        ELSE IF amount.t = "Value" /\ amount.unit # "%"
        THEN PythonError("NameError", <<"global name 'self' is not defined">>)
        ELSE Color(hls_to_rgb(hls[1], clamped, hls[3]), 0)

darken_color(color, amount0) ==
    LET amount == IF amount0 = NoOutcome THEN Value(RInt(10), "%", 0) ELSE amount0
        hls == rgb_to_hls(color.value[1], color.value[2], color.value[3])
        lightness ==
            IF amount.t = "Value"
            THEN RMul(hls[2], RDiv(amount.value, RInt(100)))
            ELSE IF amount.t = "Number"
            THEN RSub(hls[2], RDiv(amount.value, RInt(100)))
            ELSE hls[2]
        clamped == IF RLt(lightness, RInt(0)) THEN RInt(0) ELSE lightness
    IN  IF amount.t = "Value" /\ amount.unit = "%" /\ RIsZero(amount.value)
        THEN color
        ELSE IF amount.t = "Value" /\ amount.unit # "%"
        THEN PythonError("NameError", <<"global name 'self' is not defined">>)
        ELSE Color(hls_to_rgb(hls[1], clamped, hls[3]), 0)

\* method is operator.add, operator.sub or operator.mul on integers.
Color__calc(self, other, method) ==
    LET other_val(idx) == IF other.t = "Number" THEN RTrunc(other.value)
                          ELSE other.value[idx]
        new_val(idx) ==
            CASE method = "add" -> self.value[idx] + other_val(idx)
              [] method = "sub" -> self.value[idx] - other_val(idx)
              [] method = "mul" -> self.value[idx] * other_val(idx)
        channel(idx) == IF new_val(idx) > 255 THEN 255
                        ELSE IF new_val(idx) < 0 THEN 0
                        ELSE new_val(idx)
    IN  Color([idx \in 1..3 |-> channel(idx)], self.lineno)

Color_add(self, other, ctx) ==
    IF other.t \in {"Color", "Number"} THEN Color__calc(self, other, "add")
    ELSE Expr_add(self, other, ctx)

Color_sub(self, other) ==
    IF other.t \in {"Color", "Number"} THEN Color__calc(self, other, "sub")
    ELSE Expr_sub(self, other)

Color_mul(self, other) ==
    IF other.t \in {"Color", "Number"} THEN Color__calc(self, other, "mul")
    ELSE Expr_mul(self, other)

\* (sic) the division of the source subtracts.
Color_div(self, other) ==
    IF other.t \in {"Color", "Number"} THEN Color__calc(self, other, "sub")
    ELSE Expr_div(self, other)

(***************************************************************************)
(* String                                                                   *)
(***************************************************************************)
\* text * n: n copies of the text, none for n <= 0.
Repeat(s, n) ==
    IF n <= 0 THEN <<>>
    ELSE [i \in 1..(n * Len(s)) |-> s[((i - 1) % Len(s)) + 1]]

\* Literal.mul does not take the keyword `lineno`: a TypeError is raised.
String_mul(self, other) ==
    IF other.t = "Number"
    THEN String(Repeat(self.value, RTrunc(other.value)), self.lineno)
    ELSE PythonError("TypeError",
           <<"mul() got an unexpected keyword argument 'lineno'">>)

(***************************************************************************)
(* URL and List                                                             *)
(***************************************************************************)
URL_add(self, other, ctx) ==
    With(to_string(other, ctx), LAMBDA b :
      IF IsExc(b) THEN b ELSE URL(self.value \o b.value, self.lineno))

URL_mul(self, other) ==
    IF other.t = "Number"
    THEN URL(Repeat(self.value, RTrunc(other.value)), self.lineno)
    ELSE Expr_mul(self, other)

\* List.add is declared without the `context` parameter Add.evaluate
\* passes: the call itself raises.
List_add(self, other, ctx) ==
    PythonError("TypeError", <<"add() takes exactly 2 arguments (3 given)">>)

(***************************************************************************)
(* Bin.evaluate on two evaluated operands: dispatch on the left operand.    *)
(***************************************************************************)
BinOp(op, left, right, ctx) ==
    CASE op = "Add" ->
            (CASE left.t = "Number" -> Number_add(left, right, ctx)
               [] left.t = "Value" -> Value_add(left, right, ctx)
               [] left.t = "Color" -> Color_add(left, right, ctx)
               [] left.t = "URL" -> URL_add(left, right, ctx)
               [] left.t = "List" -> List_add(left, right, ctx)
               [] OTHER -> Expr_add(left, right, ctx))
      [] op = "Sub" ->
            (CASE left.t = "Number" -> Number_sub(left, right)
               [] left.t = "Value" -> Value_sub(left, right, ctx)
               [] left.t = "Color" -> Color_sub(left, right)
               [] OTHER -> Expr_sub(left, right))
      [] op = "Mul" ->
            (CASE left.t = "Number" -> Number_mul(left, right)
               [] left.t = "Value" -> Value_mul(left, right)
               [] left.t = "Color" -> Color_mul(left, right)
               [] left.t = "String" -> String_mul(left, right)
               [] left.t = "URL" -> URL_mul(left, right)
               [] OTHER -> Expr_mul(left, right))
      [] op = "Div" ->
            (CASE left.t = "Number" -> Number_div(left, right)
               [] left.t = "Value" -> Value_div(left, right)
               [] left.t = "Color" -> Color_div(left, right)
               [] OTHER -> Expr_div(left, right))
      [] op = "Mod" ->
            (CASE left.t = "Number" -> Number_mod(left, right)
               [] left.t = "Value" -> Value_mod(left, right)
               [] OTHER -> Expr_mod(left, right))

(***************************************************************************)
(* Expression trees and their evaluation against a context.                 *)
(* Eval yields [r |-> the value or the exception raised,                    *)
(*              c |-> the context the evaluation leaves behind].            *)
(***************************************************************************)
Var(name, lineno) == [t |-> "Var", name |-> name, lineno |-> lineno]
FailingVar(var, lineno) ==
    [t |-> "FailingVar", var |-> var,
     lineno |-> IF lineno # 0 THEN lineno ELSE var.lineno]
Bin(op, left, right, lineno) ==
    [t |-> op, left |-> left, right |-> right, lineno |-> lineno]
Call(node, method, args, lineno) ==
    [t |-> "Call", node |-> node, method |-> method, args |-> args,
     lineno |-> lineno]

BinOps == {"Add", "Sub", "Mul", "Div", "Mod"}

FailingVar_evaluate_unnamed(self) ==
    EvalException(self.lineno,
                  <<"Circular variable dependencies detected when resolving %s.",
                    "?">>)

FailingVar_evaluate(self) ==
    EvalException(self.lineno,
                  <<"Circular variable dependencies detected when resolving %s.",
                    self.var.name>>)

\* The keys of String.methods.
StringMethods == {"length", "upper", "lower", "strip", "split", "eval"}

\* Expr.call on an evaluated receiver with evaluated arguments.
Expr_call(self, name, args) ==
    IF name = "string"
    THEN (IF self.t = "String" THEN self ELSE String(ValueToString(self), 0))
    ELSE IF name = "type"
    THEN String(<<ExprName(self)>>, 0)
    ELSE IF self.t = "Color" /\ name \in {"brighten", "darken"}
    THEN IF Len(args) > 1
         THEN PythonError("TypeError", <<"takes at most 3 arguments">>)
         ELSE IF name = "brighten"
         THEN brighten_color(self, IF args = <<>> THEN NoOutcome ELSE args[1])
         ELSE darken_color(self, IF args = <<>> THEN NoOutcome ELSE args[1])
    ELSE IF self.t = "Color" /\ name = "hex"
    THEN IF args # <<>>
         THEN PythonError("TypeError", <<"<lambda>() takes exactly 2 arguments">>)
         ELSE Color(self.value, self.lineno)
    ELSE IF self.t \in {"Number", "Value"} /\ name = "abs"
    THEN IF args # <<>>
         THEN PythonError("TypeError", <<"<lambda>() takes exactly 2 arguments">>)
         ELSE IF self.t = "Number"
         THEN Number(<<AbsInt(self.value[1]), self.value[2]>>, 0)
         ELSE Value(<<AbsInt(self.value[1]), self.value[2]>>, self.unit, 0)
    ELSE IF self.t \in {"Number", "Value"} /\ name = "round"
    THEN IF args # <<>>
         THEN PythonError("TypeError", <<"a float is required">>)
         ELSE IF self.t = "Number"
         THEN Number(RInt(RRound(self.value)), 0)
         ELSE Value(RInt(RRound(self.value)), self.unit, 0)
    ELSE CASE ~(self.t = "String" /\ name \in StringMethods) ->
            EvalException(self.lineno,
              <<"%s objects don't have a method called \"%s\". If you want to use this construct as string, quote it.",
                ExprName(self), name>>)

\* Number.neg, Value.neg, and Expr.neg, whose message has two places for
\* one argument.
Expr_neg(self) ==
    IF self.t = "Number" THEN Number(RNeg(self.value), 0)
    ELSE IF self.t = "Value" THEN Value(RNeg(self.value), self.unit, self.lineno)
    ELSE PythonError("TypeError", <<"not enough arguments for format string">>)

\* One component of RGB.evaluate: the channel, or the exception raised.
RGB_component(self, arg) ==
    LET value == IF arg.t = "Number" THEN RTrunc(arg.value)
                 ELSE RTrunc(RMul(RDiv(arg.value, RInt(100)), RInt(255)))
    IN  IF ~(arg.t = "Number" \/ (arg.t = "Value" /\ arg.unit = "%"))
        THEN EvalException(self.lineno,
               <<"colors defined using the rgb() literal only accept numbers and percentages.">>)
        ELSE IF value < 0 \/ value > 255
        THEN PythonError("NameError", <<"global name 'EvalError' is not defined">>)
        ELSE Number(RInt(value), 0)

\* A Var.evaluate that puts the entry back only when the evaluation returns.
Var_finally_on_return(inner, name, val) ==
    IF IsExc(inner.r) THEN inner
    ELSE [r |-> inner.r, c |-> [inner.c EXCEPT ![name] = val]]

\* finally: context[self.name] = val, behind what val.evaluate returned or
\* raised.
Var_finally(inner, name, val) ==
    [r |-> inner.r, c |-> [inner.c EXCEPT ![name] = val]]

RECURSIVE Eval(_, _)
RECURSIVE EvalArgs(_, _)
RECURSIVE RGB_evaluate(_, _, _, _)

\* RGB.evaluate: the loop over self.rgb, from the components gathered so far.
RGB_evaluate(self, rest, args, ctx) ==
    IF rest = <<>> THEN [r |-> Color(args, self.lineno), c |-> ctx]
    ELSE With(Eval(rest[1], ctx), LAMBDA arg :
           IF IsExc(arg.r) THEN arg
           ELSE With(RGB_component(self, arg.r), LAMBDA comp :
                  IF IsExc(comp) THEN [r |-> comp, c |-> arg.c]
                  ELSE RGB_evaluate(self, Tail(rest),
                                    Append(args, RTrunc(comp.value)), arg.c)))

\* [x.evaluate(context) for x in args]: r is the list, or the exception.
EvalArgs(args, ctx) ==
    IF args = <<>> THEN [r |-> <<>>, c |-> ctx, ok |-> TRUE]
    ELSE With(Eval(args[1], ctx), LAMBDA head :
           IF IsExc(head.r) THEN [r |-> head.r, c |-> head.c, ok |-> FALSE]
           ELSE With(EvalArgs(Tail(args), head.c), LAMBDA rest :
                  IF rest.ok
                  THEN [r |-> <<head.r>> \o rest.r, c |-> rest.c, ok |-> TRUE]
                  ELSE rest))

Eval(e, ctx) ==
    CASE e.t = "Var" ->
            IF e.name \notin DOMAIN ctx
            THEN [r |-> EvalException(e.lineno,
                                      <<"variable %s is not defined", e.name>>),
                  c |-> ctx]
            ELSE With(Eval(ctx[e.name],
                           [ctx EXCEPT ![e.name] = FailingVar(e, e.lineno)]),
                      LAMBDA inner : Var_finally(inner, e.name, ctx[e.name]))
      [] e.t = "FailingVar" -> [r |-> FailingVar_evaluate(e), c |-> ctx]
      [] e.t \in BinOps ->
            With(Eval(e.left, ctx), LAMBDA l :
              IF IsExc(l.r) THEN l
              ELSE With(Eval(e.right, l.c), LAMBDA r :
                     IF IsExc(r.r) THEN r
                     ELSE [r |-> BinOp(e.t, l.r, r.r, r.c), c |-> r.c]))
      [] e.t = "Call" ->
            With(Eval(e.node, ctx), LAMBDA node :
              IF IsExc(node.r) THEN node
              ELSE With(EvalArgs(e.args, node.c), LAMBDA args :
                     IF ~args.ok THEN [r |-> args.r, c |-> args.c]
                     ELSE [r |-> Expr_call(node.r, e.method, args.r),
                           c |-> args.c]))
      [] e.t = "Neg" ->
            With(Eval(e.node, ctx), LAMBDA node :
              IF IsExc(node.r) THEN node
              ELSE [r |-> Expr_neg(node.r), c |-> node.c])
      [] e.t = "RGB" -> RGB_evaluate(e, e.rgb, <<>>, ctx)
      [] OTHER -> [r |-> e, c |-> ctx]

\* to_string of any expression: ImplicitConcat and List join the texts of
\* their parts, a literal renders itself, everything else is evaluated
\* first.  [t |-> "unicode", value |-> the text], or the exception raised.
Text(value) == [t |-> "unicode", value |-> value]

RECURSIVE JoinStrings(_, _, _)
JoinStrings(items, sep, ctx) ==
    IF items = <<>> THEN Text(<<>>)
    ELSE With(to_string(items[1], ctx), LAMBDA head :
           IF IsExc(head) \/ Len(items) = 1 THEN head
           ELSE With(JoinStrings(Tail(items), sep, ctx), LAMBDA rest :
                  IF IsExc(rest) THEN rest
                  ELSE Text(head.value \o sep \o rest.value)))

to_string(e, ctx) ==
    CASE e.t = "ImplicitConcat" -> JoinStrings(e.nodes, <<" ">>, ctx)
      [] e.t = "List" -> JoinStrings(e.items, <<",", " ">>, ctx)
      [] e.t \in {"Number", "Value", "Color", "String", "URL"} ->
            Text(ValueToString(e))
      [] OTHER -> With(Eval(e, ctx).r, LAMBDA v :
                    IF IsExc(v) THEN v ELSE to_string(v, ctx))

\* An empty context: a function with no names.
EmptyContext == [n \in {} |-> NoOutcome]

(***************************************************************************)
(* Specification SpecArith: one operation applied to two literal operands.  *)
(***************************************************************************)
Units == {"mm", "cm", "in", "pt", "pc", "ms", "s", "Hz", "kHz", "px", "%"}

Black == <<0, 0, 0>>
White == <<255, 255, 255>>

Operands ==
    {Number(RInt(k), 1) : k \in 0..MaxMag}
    \cup {Number(RInt(100), 1), Number(Rat(1, 2), 1), Number(RInt(300), 1)}
    \cup {Value(RInt(k), u, 1) : k \in 0..MaxMag, u \in Units}
    \cup {Value(RInt(100), "%", 1), Value(RInt(200), "%", 1),
          Value(Rat(1, 2), "cm", 1)}
    \cup {Color(c, 1) : c \in {Black, White, <<255, 0, 0>>, <<128, 128, 128>>}}
    \cup {String(<<"a">>, 1), URL(<<"u">>, 1)}
    \cup {List(<<Number(RInt(1), 1), String(<<"a">>, 1)>>, 1),
          ImplicitConcat(<<Number(RInt(1), 1), String(<<"a">>, 1)>>, 1)}

IdleArith == opA = NoOutcome /\ opB = NoOutcome /\ arith = <<>>
IdleVars == vtable = EmptyContext /\ vreq = "" /\ vout = NoOutcome
            /\ vctx = EmptyContext
IdleCss ==
    /\ pc = "off" /\ source = <<>> /\ context = EmptyContext /\ nlines = 0
    /\ rules = <<>> /\ rule = 0 /\ vars = <<>>
    /\ indention_stack = <<>> /\ state_stack = <<>> /\ group_block_stack = <<>>
    /\ rule_stack = <<>> /\ new_state = "None" /\ result = <<>> /\ level_stack = <<>>
    /\ real_vars = EmptyContext /\ evaluated = <<>> /\ css = <<>>
    /\ error = NoOutcome

IdleScan ==
    /\ li_lines = <<>> /\ li_lineno = 0 /\ li_emit_endmarker = FALSE
    /\ start_lineno = 0 /\ li_out = <<>> /\ li_error = NoOutcome /\ li_pc = "off"
IdleComp ==
    /\ cp_kind = "off" /\ cp_block = <<>> /\ DEBUG = FALSE /\ cp_filters = FALSE
    /\ compiler_ok = FALSE /\ source_newer = FALSE /\ compiled_files = {}
    /\ split_content = <<>>
    /\ _hunks = [set |-> FALSE, v |-> <<>>]
    /\ _output = [set |-> FALSE, v |-> <<>>]
    /\ cp_ret = [call |-> "none", exc |-> NoOutcome, value |-> <<>>]
    /\ cp_calls = 0
IdleExpr ==
    /\ ex_terms = <<>> /\ ex_ops = <<>> /\ ex_tail = <<>> /\ ex_tree = NoOutcome
    /\ ex_value = NoOutcome /\ ex_pc = "off"
IdleRender ==
    /\ rn_pc = <<>> /\ rn_ret = <<>> /\ cache_output = "absent"
    /\ cache_flag = "absent" /\ flag_lost = FALSE
IdleRest == IdleScan /\ IdleComp /\ IdleExpr /\ IdleRender

InitArith ==
    /\ opA \in Operands
    /\ opB \in Operands
    /\ arith = <<>>
    /\ IdleVars
    /\ IdleCss
    /\ IdleRest

\* Add / Sub / Mul / Div / Mod .evaluate on the two operands.
ApplyBin(op) ==
    /\ arith = <<>>
    /\ arith' = <<op, Eval(Bin(op, opA, opB, 1), EmptyContext).r>>
    /\ UNCHANGED <<opA, opB, varVars, cssVars, restVars>>

\* (A + B) - B, as Sub(Add(A, B), B).evaluate.
ApplyRoundTrip ==
    /\ arith = <<>>
    /\ arith' = <<"RoundTrip",
                  Eval(Bin("Sub", Bin("Add", opA, opB, 1), opB, 1),
                       EmptyContext).r>>
    /\ UNCHANGED <<opA, opB, varVars, cssVars, restVars>>

\* A.method(B), as Call(A, method, [B]).evaluate.
ApplyCall(method) ==
    /\ arith = <<>>
    /\ arith' = <<method, Eval(Call(opA, method, <<opB>>, 1), EmptyContext).r>>
    /\ UNCHANGED <<opA, opB, varVars, cssVars, restVars>>

\* rgb(A, A, B), as RGB([A, A, B]).evaluate.
ApplyRGB ==
    /\ arith = <<>>
    /\ arith' = <<"rgb", Eval(RGB(<<opA, opA, opB>>, 1), EmptyContext).r>>
    /\ UNCHANGED <<opA, opB, varVars, cssVars, restVars>>

ApplyAdd == ApplyBin("Add")
ApplySub == ApplyBin("Sub")
ApplyMul == ApplyBin("Mul")
ApplyDiv == ApplyBin("Div")
ApplyMod == ApplyBin("Mod")
ApplyBrighten == ApplyCall("brighten")
ApplyDarken == ApplyCall("darken")

NextArith ==
    \/ ApplyAdd
    \/ ApplySub
    \/ ApplyMul
    \/ ApplyDiv
    \/ ApplyMod
    \/ ApplyRoundTrip
    \/ ApplyBrighten
    \/ ApplyDarken
    \/ ApplyRGB

SpecArith == InitArith /\ [][NextArith]_allVars

(***************************************************************************)
(* Specification SpecVars: a property expression requests one variable of   *)
(* a variable table.                                                        *)
(***************************************************************************)
VarNames == <<"a", "b", "c", "d">>
Names == {VarNames[i] : i \in 1..MaxVars}

\* Definitions a variable may have: a literal, a reference, a sum of two
\* references.
VarExprs ==
    {Number(RInt(1), 1)}
    \cup {Var(n, 1) : n \in Names}
    \cup {Bin("Add", Var(n, 1), Var(m, 1), 1) : n \in Names, m \in Names}

InitVars ==
    /\ vtable \in [Names -> VarExprs]
    /\ vreq \in Names
    /\ vout = NoOutcome
    /\ vctx = vtable
    /\ IdleArith
    /\ IdleCss
    /\ IdleRest

\* Var(vreq).evaluate(context)
ResolveVar ==
    /\ vout = NoOutcome
    /\ LET ev == Eval(Var(vreq, 1), vtable)
       IN  vout' = ev.r /\ vctx' = ev.c
    /\ UNCHANGED <<vtable, vreq, arithVars, cssVars, restVars>>

NextVars == ResolveVar

SpecVars == InitVars /\ [][NextVars]_allVars

(***************************************************************************)
(* Claims on the value arithmetic (SpecArith).                              *)
(***************************************************************************)
Applied(op) == arith # <<>> /\ arith[1] = op
Outcome == arith[2]
IsNumeric(x) == x.t \in {"Number", "Value"}

Factor(unit) == _conv[_conv_mapping(unit)][unit]
SameFamily(a, b) ==
    /\ a.t = "Value" /\ b.t = "Value"
    /\ _conv_mapping(a.unit) # "None"
    /\ _conv_mapping(a.unit) = _conv_mapping(b.unit)
Convertible(a, b) == SameFamily(a, b) /\ a.unit # b.unit
\* The magnitude of a dimensioned value in its family's reference unit.
RefMag(x) == RMul(x.value, Factor(x.unit))

\* C2 (as claimed): '/' and '%' of a Number or Value by a Number or Value of
\* magnitude zero raise the evaluation error 'cannot divide by zero' and
\* nothing else.
C2_DivModByZeroIsEvalError ==
    (\/ Applied("Div") \/ Applied("Mod"))
    /\ IsNumeric(opA) /\ IsNumeric(opB) /\ RIsZero(opB.value)
    => /\ Outcome.t = "EvalException"
       /\ Outcome.message = <<"cannot divide by zero">>

\* C7 (as claimed): for dimensioned A and B of one unit or of one convertible
\* family, (A + B) - B is A's magnitude in A's unit.
C7_RoundTripRestoresA ==
    Applied("RoundTrip") /\ opA.t = "Value" /\ opB.t = "Value"
    /\ (opA.unit = opB.unit \/ SameFamily(opA, opB))
    => /\ Outcome.t = "Value"
       /\ Outcome.value = opA.value
       /\ Outcome.unit = opA.unit

SmallerUnitOperand == IF RLt(Factor(opA.unit), Factor(opB.unit)) THEN opA ELSE opB
LargerUnitOperand == IF RLt(Factor(opA.unit), Factor(opB.unit)) THEN opB ELSE opA

HexWhite == <<"#", "f", "f", "f", "f", "f", "f">>
HexBlack == <<"#", "0", "0", "0", "0", "0", "0">>

\* C9 (as claimed): #000000 brightened by 100% renders as #ffffff, and
\* #ffffff darkened by 100% renders as #000000.
C9_BrightenDarkenFull ==
    /\ Applied("brighten") /\ opA = Color(Black, 1)
       /\ opB = Value(RInt(100), "%", 1)
       => Outcome.t = "Color" /\ ValueToString(Outcome) = HexWhite
    /\ Applied("darken") /\ opA = Color(White, 1)
       /\ opB = Value(RInt(100), "%", 1)
       => Outcome.t = "Color" /\ ValueToString(Outcome) = HexBlack

\* The pairs of variants section 4.6 gives an arithmetic of their own:
\* Number and Value among themselves, Color with Color or Number.
ArithmeticallyCompatible(a, b) ==
    \/ IsNumeric(a) /\ IsNumeric(b)
    \/ {a.t, b.t} \in {{"Color"}, {"Color", "Number"}}

Stringified(x) == to_string(x, EmptyContext).value

\* C11 (as claimed): '+' over a pair of variants that is not arithmetically
\* compatible never fails and yields the String whose text is the left
\* operand's stringification followed by the right operand's.
C11_PlusFallsBackToString ==
    Applied("Add") /\ ~ArithmeticallyCompatible(opA, opB)
    => /\ Outcome.t = "String"
       /\ Outcome.value = Stringified(opA) \o Stringified(opB)

\* C11 (what the code does elsewhere): the fallback is the concatenation of
\* the two stringifications whenever the left operand is neither a List nor
\* a URL.
C11_FallbackUnlessListOrURL ==
    Applied("Add") /\ ~ArithmeticallyCompatible(opA, opB)
    /\ opA.t \notin {"List", "URL"}
    => /\ Outcome.t = "String"
       /\ Outcome.value = Stringified(opA) \o Stringified(opB)

\* C11: a List on the left ends in the interpreter's TypeError, a URL on the
\* left yields a URL.
C11_ListOrURLOnTheLeft ==
    Applied("Add")
    => /\ opA.t = "List" => Outcome.t = "TypeError"
       /\ opA.t = "URL" => /\ Outcome.t = "URL"
                           /\ Outcome.value = opA.value \o Stringified(opB)

\* The channel RGB.evaluate computes from a component it accepts.
ChannelOf(x) ==
    IF x.t = "Number" THEN RTrunc(x.value)
    ELSE RTrunc(RMul(RDiv(x.value, RInt(100)), RInt(255)))
AcceptedComponent(x) == x.t = "Number" \/ (x.t = "Value" /\ x.unit = "%")
OutOfRange(x) == ChannelOf(x) < 0 \/ ChannelOf(x) > 255

\* C12 (as claimed): rgb() over numbers and percentages of which one maps
\* outside 0..255 ends in the evaluation error, with the line number and a
\* message.
C12_OutOfRangeIsEvalError ==
    Applied("rgb") /\ AcceptedComponent(opA) /\ AcceptedComponent(opB)
    /\ (OutOfRange(opA) \/ OutOfRange(opB))
    => /\ Outcome.t = "EvalException"
       /\ Outcome.lineno = 1
       /\ Outcome.message # <<>>

\* C12 (what the code does): the range check names a class that does not
\* exist, so the interpreter's NameError leaves the evaluation; no Color is
\* built from a channel outside 0..255.
C12_OutOfRangeIsNameError ==
    Applied("rgb")
    => /\ AcceptedComponent(opA) /\ AcceptedComponent(opB)
          /\ (OutOfRange(opA) \/ OutOfRange(opB))
          => Outcome.t = "NameError"
       /\ Outcome.t = "Color"
          => /\ \A i \in 1..3 : Outcome.value[i] \in 0..255
             /\ Outcome.value = <<ChannelOf(opA), ChannelOf(opA), ChannelOf(opB)>>

(***************************************************************************)
(* Claims on variable resolution (SpecVars).                                *)
(***************************************************************************)
\* The variables a definition refers to.
RECURSIVE Refs(_)
Refs(e) ==
    IF e.t = "Var" THEN {e.name}
    ELSE IF e.t \in BinOps THEN Refs(e.left) \cup Refs(e.right)
    ELSE {}

RECURSIVE Closure(_)
Closure(S) ==
    LET T == S \cup UNION {Refs(vtable[n]) : n \in S}
    IN  IF T = S THEN S ELSE Closure(T)

\* The variables reached from n through one or more references.
ReachedFrom(n) == Closure(Refs(vtable[n]))
OnCycle(n) == n \in ReachedFrom(n)
ReachesCycle(n) == \E w \in {n} \cup ReachedFrom(n) : OnCycle(w)
\* Every definition on the way from n holds at most one reference.
SingleReferences(n) ==
    \A w \in {n} \cup ReachedFrom(n) : vtable[w].t \notin BinOps

CircularError(x, name) ==
    /\ x.t = "EvalException"
    /\ x.message = <<"Circular variable dependencies detected when resolving %s.",
                     name>>

\* C1 (as claimed): when resolving the requested variable v reaches a cycle of
\* any length, directly or through other variables, the circular-dependency
\* error names v.
C1_NamesRequestedVariable ==
    vout # NoOutcome /\ ReachesCycle(vreq) => CircularError(vout, vreq)

\* C1 (amended): when resolving v reaches a cycle, the circular-dependency
\* error is raised and names the variable whose lookup met the sentinel: a
\* variable on a cycle that v reaches.  It is v when v lies on the cycle and
\* every definition on the way holds a single reference.  No such error is
\* raised when v reaches no cycle.
C1_NamesVariableOnCycle ==
    vout # NoOutcome =>
        /\ ReachesCycle(vreq) =>
              \E w \in {vreq} \cup ReachedFrom(vreq) :
                  /\ CircularError(vout, w)
                  /\ OnCycle(w)
                  /\ (OnCycle(vreq) /\ SingleReferences(vreq) => w = vreq)
        /\ ~ReachesCycle(vreq) => \A w \in Names : ~CircularError(vout, w)

\* a = $b, b = $b and the property requests $a: the error names b.
C1_Witness ==
    /\ vreq = "a"
    /\ vtable["a"] = Var("b", 1) /\ vtable["b"] = Var("b", 1)
    /\ CircularError(vout, "b")

(***************************************************************************)
(* Parser.preparse: the line-wise parser.  One step consumes one line of    *)
(* the line iterator; the locals of the function are the state.             *)
(***************************************************************************)
LowerChars == {"a", "b", "c", "d", "e", "f", "g", "h", "i", "j", "k", "l", "m",
               "n", "o", "p", "q", "r", "s", "t", "u", "v", "w", "x", "y", "z"}
UpperChars == {"A", "B", "C", "D", "E", "F", "G", "H", "I", "J", "K", "L", "M",
               "N", "O", "P", "Q", "R", "S", "T", "U", "V", "W", "X", "Y", "Z"}
DigitSet == {DigitChars[i] : i \in 1..10}
IsAlpha(c) == c \in LowerChars \cup UpperChars
IsIdentStart(c) == IsAlpha(c) \/ c = "_"
IdentChars == LowerChars \cup UpperChars \cup DigitSet \cup {"_"}

EndsWith(s, suffix) ==
    /\ Len(s) >= Len(suffix)
    /\ SubSeq(s, Len(s) - Len(suffix) + 1, Len(s)) = suffix

Contains(s, c) == \E i \in 1..Len(s) : s[i] = c

\* The length of the longest prefix of s whose characters all lie in class.
RECURSIVE SpanLen(_, _)
SpanLen(s, class) ==
    IF s # <<>> /\ s[1] \in class THEN 1 + SpanLen(Tail(s), class) ELSE 0

Drop(s, n) == SubSeq(s, n + 1, Len(s))

\* _def_re = ^([a-zA-Z-]+)\s*:\s*(.+) searched in a stripped line:
\* <<key, value>>, or <<>> when the line does not match.
_def_re(line) ==
    LET klen == SpanLen(line, LowerChars \cup UpperChars \cup {"-"})
        afterKey == LStrip(Drop(line, klen))
        value == LStrip(Tail(afterKey))
    IN  IF klen > 0 /\ afterKey # <<>> /\ afterKey[1] = ":" /\ value # <<>>
        THEN <<SubSeq(line, 1, klen), value>>
        ELSE <<>>

\* _var_def_re = ^([a-zA-Z_][a-zA-Z0-9_]*)\s*=\s*(.+)
_var_def_re(line) ==
    LET klen == IF line # <<>> /\ IsIdentStart(line[1])
                THEN SpanLen(line, IdentChars) ELSE 0
        afterKey == LStrip(Drop(line, klen))
        value == LStrip(Tail(afterKey))
    IN  IF klen > 0 /\ afterKey # <<>> /\ afterKey[1] = "=" /\ value # <<>>
        THEN <<SubSeq(line, 1, klen), value>>
        ELSE <<>>

EndMarker == <<"_", "_", "E", "N", "D", "_", "_">>

Last(s) == s[Len(s)]
Pop(s) == SubSeq(s, 1, Len(s) - 1)

\* The locals of preparse as one record.
ParserState ==
    [rules |-> rules, rule |-> rule, vars |-> vars,
     indention_stack |-> indention_stack, state_stack |-> state_stack,
     group_block_stack |-> group_block_stack, rule_stack |-> rule_stack,
     new_state |-> new_state, lineno |-> 0, error |-> NoOutcome, done |-> FALSE]

\* fail(msg): raise ParserError(lineno, msg) with the current binding of lineno.
Fail(P, msg) == [P EXCEPT !.error = ParserError(P.lineno, msg)]

\* The group-block flush: rule[2].append((lineno, name + '-' + key, val)) for
\* every pending definition; the loop variable rebinds preparse's lineno.
FlushGroupBlock(P) ==
    LET top == Last(P.group_block_stack)
        name == top[1]
        part_defs == top[2]
        hoisted == [i \in 1..Len(part_defs) |->
                       <<part_defs[i][1], name \o <<"-">> \o part_defs[i][2],
                         part_defs[i][3]>>]
    IN  [P EXCEPT !.group_block_stack = Pop(P.group_block_stack),
                  !.rules[P.rule].defs = @ \o hoisted,
                  !.lineno = IF part_defs = <<>> THEN P.lineno
                             ELSE Last(part_defs)[1]]

\* The dedent loop leaving after the innermost block.
Dedent_one_block(P, level) ==
    [P EXCEPT !.indention_stack = Pop(@), !.state_stack = Pop(@)]

\* while indention_stack[-1] != level: close the innermost block.
RECURSIVE Dedent(_, _)
Dedent(P, level) ==
    IF Last(P.indention_stack) = level THEN P
    ELSE LET closed ==
                 IF Last(P.state_stack) = "rule"
                 THEN [P EXCEPT !.rule = Last(P.rule_stack),
                                !.rule_stack = Pop(P.rule_stack)]
                 ELSE IF Last(P.state_stack) = "group_block"
                 THEN FlushGroupBlock(P)
                 ELSE P
         IN  Dedent([closed EXCEPT !.indention_stack = Pop(@),
                                   !.state_stack = Pop(@)],
                    level)

\* The indentation part of one iteration.
Indentation(P, indention) ==
    IF indention > Last(P.indention_stack)
    THEN IF P.new_state = "None"
         THEN Fail(P, <<"unexpected indent">>)
         ELSE [P EXCEPT !.state_stack = Append(@, P.new_state),
                        !.indention_stack = Append(@, indention),
                        !.new_state = "None"]
    ELSE IF indention < Last(P.indention_stack)
    THEN IF \E i \in 1..Len(P.indention_stack) : P.indention_stack[i] = indention
         THEN Dedent(P, indention)
         ELSE Fail(P, <<"invalid dedent">>)
    ELSE IF P.new_state # "None"
    THEN Fail(P, <<"expected definitions, found nothing">>)
    ELSE P

\* parse_definition(): (lineiter.lineno, key, value) appended by `append`.
ParseDefinition(P, line, iter_lineno) ==
    LET m == _def_re(line)
    IN  IF m = <<>> THEN Fail(P, <<"invalid syntax for style definition">>)
        ELSE IF Last(P.state_stack) = "group_block"
        THEN [P EXCEPT !.group_block_stack[Len(P.group_block_stack)][2] =
                           Append(@, <<iter_lineno, m[1], m[2]>>)]
        ELSE [P EXCEPT !.rules[P.rule].defs = Append(@, <<iter_lineno, m[1], m[2]>>)]

\* vars[key] = (lineiter.lineno, value) with no test for an earlier entry.
DefineVariable_overwriting(P, line, iter_lineno) ==
    LET m == _var_def_re(line)
        others == SelectSeq(P.vars, LAMBDA v : v[1] # m[1])
    IN  IF m = <<>> THEN Fail(P, <<"invalid syntax">>)
        ELSE [P EXCEPT !.vars = Append(others, <<m[1], iter_lineno, m[2]>>)]

\* A root-level line holding '=': the variable definition.
DefineVariable(P, line, iter_lineno) ==
    LET m == _var_def_re(line)
    IN  IF m = <<>> THEN Fail(P, <<"invalid syntax">>)
        ELSE IF \E i \in 1..Len(P.vars) : P.vars[i][1] = m[1]
        THEN Fail(P, <<"variable \"%s\" defined twice", m[1]>>)
        ELSE [P EXCEPT !.vars = Append(@, <<m[1], iter_lineno, m[2]>>)]

\* The dispatch on the stripped line, after the indentation part.
Dispatch(P, line, iter_lineno) ==
    IF line = EndMarker THEN [P EXCEPT !.done = TRUE]
    ELSE IF Last(P.state_stack) \in {"rule", "root"}
    THEN IF EndsWith(line, <<":">>)
         THEN LET s_rule == RStrip(Pop(line))
                  new_rule == [sel |-> s_rule, children |-> <<>>, defs |-> <<>>]
                  idx == Len(P.rules) + 1
              IN  IF s_rule = <<>> THEN Fail(P, <<"empty rule">>)
                  ELSE [P EXCEPT !.new_state = "rule",
                                 !.rules = Append([@ EXCEPT ![P.rule].children =
                                                               Append(@, idx)],
                                                  new_rule),
                                 !.rule_stack = Append(@, P.rule),
                                 !.rule = idx]
         ELSE IF Last(P.state_stack) = "root"
         THEN IF Contains(line, "=")
              THEN DefineVariable(P, line, iter_lineno)
              ELSE Fail(P, <<"Style definitions or group blocks are only allowed inside a rule or group block.">>)
         ELSE IF EndsWith(line, <<"-", ">">>)
         THEN LET group_prefix == RStrip(SubSeq(line, 1, Len(line) - 2))
              IN  IF group_prefix = <<>> THEN Fail(P, <<"no group prefix defined">>)
                  ELSE [P EXCEPT !.new_state = "group_block",
                                 !.group_block_stack = Append(@, <<group_prefix, <<>>>>)]
         ELSE ParseDefinition(P, line, iter_lineno)
    ELSE IF Last(P.state_stack) = "group_block"
    THEN ParseDefinition(P, line, iter_lineno)
    ELSE Fail(P, <<"unexpected character %s", <<line[1]>>>>)

\* One iteration of `for lineno, line in lineiter`.  A tab-free line:
\* expandtabs changes nothing.
PreparseStep(P0, lineno, text, iter_lineno) ==
    LET P == [P0 EXCEPT !.lineno = lineno]
        raw_line == RStrip(text)
        line == LStrip(raw_line)
        indention == Len(raw_line) - Len(line)
        indented == Indentation(P, indention)
    IN  IF IsExc(indented.error) THEN indented
        ELSE Dispatch(indented, line, iter_lineno)

(***************************************************************************)
(* Parser.parse_expr: the tokenizer.  The generator is pulled one token at  *)
(* a time by TokenStream.next, so an error in the text is met only when the *)
(* parser asks that far.  The url(...) literal is left out of the alphabet. *)
(***************************************************************************)
_operators == {"+", "-", "*", "/", "%", "(", ")", ";", ","}
_units == <<<<"e", "m">>, <<"e", "x">>, <<"p", "x">>, <<"c", "m">>, <<"m", "m">>, <<"i", "n">>, <<"p", "t">>, <<"p", "c">>,
            <<"d", "e", "g">>, <<"r", "a", "d", "g", "r", "a", "d">>, <<"m", "s">>, <<"s">>, <<"H", "z">>, <<"k", "H", "z">>, <<"%">>>>

StartsWithAt(s, pos, prefix) ==
    /\ pos + Len(prefix) - 1 <= Len(s)
    /\ SubSeq(s, pos, pos + Len(prefix) - 1) = prefix

From(s, pos) == SubSeq(s, pos, Len(s))

\* _r_call = ([a-zA-Z_][a-zA-Z0-9_]*)\( at pos: the length of the name, or 0.
CallNameLen(s, pos) ==
    LET rest == From(s, pos)
        n == IF rest # <<>> /\ IsIdentStart(rest[1]) THEN SpanLen(rest, IdentChars)
             ELSE 0
    IN  IF n > 0 /\ n < Len(rest) /\ rest[n + 1] = "(" THEN n ELSE 0

\* _r_number = \d+(?:\.\d+)? at pos, taken greedily: its length, or 0.
NumberLen(s, pos) ==
    LET rest == From(s, pos)
        n == SpanLen(rest, DigitSet)
        f == IF n > 0 /\ n < Len(rest) /\ rest[n + 1] = "."
             THEN SpanLen(Drop(rest, n + 1), DigitSet) ELSE 0
    IN  IF n = 0 THEN 0 ELSE IF f > 0 THEN n + 1 + f ELSE n

\* (?![a-zA-Z0-9_]) at pos.
NoIdentAt(s, pos) == pos > Len(s) \/ s[pos] \notin IdentChars

\* _number_re at pos: the greedy number, or its integer part alone when the
\* lookahead fails behind the fraction; the length matched, or 0.
NumberMatch(s, pos) ==
    LET full == NumberLen(s, pos)
        int == SpanLen(From(s, pos), DigitSet)
    IN  IF full = 0 THEN 0
        ELSE IF NoIdentAt(s, pos + full) THEN full
        ELSE IF int < full THEN int
        ELSE 0

\* _value_re at pos: <<length of the number, index of the unit>>, or <<>>.
ValueMatch(s, pos) ==
    LET n == NumberLen(s, pos)
        fits(i) == /\ StartsWithAt(s, pos + n, _units[i])
                   /\ NoIdentAt(s, pos + n + Len(_units[i]))
    IN  IF n > 0 /\ \E i \in 1..Len(_units) : fits(i)
        THEN <<n, CHOOSE i \in 1..Len(_units) :
                      fits(i) /\ \A j \in 1..(i - 1) : ~fits(j)>>
        ELSE <<>>

\* [a-fA-f0-9]: the class of the source spans 'A' to 'f'.  The backquote,
\* which no string of this module can hold, is not in the input alphabet.
ColorChars ==
    UpperChars \cup DigitSet \cup {"a", "b", "c", "d", "e", "f"}
    \cup {"[", "\\", "]", "^", "_"}

\* _color_re at pos: '#' and three to six characters of the class.
ColorMatch(s, pos) ==
    LET n == IF pos <= Len(s) /\ s[pos] = "#"
             THEN SpanLen(From(s, pos + 1), ColorChars) ELSE 0
    IN  IF n >= 3 THEN 1 + (IF n > 6 THEN 6 ELSE n) ELSE 0

\* The end of a quoted string opened at pos (the index of the closing
\* quote), or 0.
RECURSIVE QuoteEnd(_, _, _)
QuoteEnd(s, i, q) ==
    IF i > Len(s) THEN 0
    ELSE IF s[i] = q THEN i
    ELSE IF s[i] = "\\" THEN (IF i + 1 > Len(s) THEN 0 ELSE QuoteEnd(s, i + 2, q))
    ELSE QuoteEnd(s, i + 1, q)

BareExcluded == Whitespace \cup {"*", "/", "(", ")", ";", ",", ".", "+", "$"}

\* ([^\s*/();,.+$]+|\.(?!call))+ at pos: the length of the run.
RECURSIVE BareLen(_, _)
BareLen(s, pos) ==
    IF pos > Len(s) THEN 0
    ELSE IF s[pos] \notin BareExcluded THEN 1 + BareLen(s, pos + 1)
    ELSE IF s[pos] = "." /\ CallNameLen(s, pos + 1) = 0 THEN 1 + BareLen(s, pos + 1)
    ELSE 0

\* _string_re at pos: the length matched, or 0.
StringMatch(s, pos) ==
    LET q == IF pos <= Len(s) /\ s[pos] \in {"'", "\""}
             THEN QuoteEnd(s, pos + 1, s[pos]) ELSE 0
    IN  IF q > 0 THEN q - pos + 1 ELSE BareLen(s, pos)

\* decode('string-escape') of the text between the quotes.
RECURSIVE DecodeEscapes(_)
DecodeEscapes(s) ==
    IF s = <<>> THEN <<>>
    ELSE IF s[1] = "\\" /\ Len(s) >= 2
    THEN (CASE s[2] = "n" -> <<"\n">>
            [] s[2] = "t" -> <<"\t">>
            [] s[2] \in {"\\", "'", "\""} -> <<s[2]>>
            [] OTHER -> <<"\\", s[2]>>)
         \o DecodeEscapes(Drop(s, 2))
    ELSE <<s[1]>> \o DecodeEscapes(Tail(s))

IsColorName(value) == \E k \in DOMAIN _colors : NameText(k) = value

None == <<"None">>

process_string(value) ==
    IF value[1] = Last(value) /\ value[1] \in {"'", "\""}
    THEN <<DecodeEscapes(SubSeq(value, 2, Len(value) - 1)), "string">>
    ELSE IF value = <<"r", "g", "b">> THEN <<None, "rgb">>
    ELSE IF IsColorName(value) THEN <<value, "color">>
    ELSE <<value, "string">>

\* _var_re at pos: <<length matched, name>>, or <<>>.
VarMatch(s, pos) ==
    LET rest == From(s, pos)
        body == Tail(rest)
        plain == IF body # <<>> /\ IsIdentStart(body[1])
                 THEN SpanLen(body, IdentChars) ELSE 0
        inner == IF body # <<>> /\ body[1] = "{" /\ Len(body) >= 2
                    /\ IsIdentStart(body[2])
                 THEN SpanLen(Tail(body), IdentChars) ELSE 0
    IN  IF rest = <<>> \/ rest[1] # "$" \/ (pos > 1 /\ s[pos - 1] = "\\") THEN <<>>
        ELSE IF plain > 0 THEN <<1 + plain, SubSeq(body, 1, plain)>>
        ELSE IF inner > 0 /\ Len(body) >= inner + 2 /\ body[inner + 2] = "}"
        THEN <<inner + 3, SubSeq(body, 2, inner + 1)>>
        ELSE <<>>

\* One turn of the `while pos < end` loop: the first rule that matches at
\* pos.  [tok |-> the token or <<>> for whitespace, end |-> the next pos],
\* or [tok |-> <<"Syntax error">>, end |-> 0] when no rule matches.
Lexeme(s, pos) ==
    IF s[pos] \in _operators THEN [tok |-> <<<<s[pos]>>, "op">>, end |-> pos + 1]
    ELSE IF s[pos] = "." /\ CallNameLen(s, pos + 1) > 0
    THEN [tok |-> <<SubSeq(s, pos + 1, pos + CallNameLen(s, pos + 1)), "call">>,
          end |-> pos + CallNameLen(s, pos + 1) + 2]
    ELSE IF ValueMatch(s, pos) # <<>>
    THEN LET m == ValueMatch(s, pos)
         IN  [tok |-> <<<<SubSeq(s, pos, pos + m[1] - 1), _units[m[2]]>>, "value">>,
              end |-> pos + m[1] + Len(_units[m[2]])]
    ELSE IF ColorMatch(s, pos) > 0
    THEN [tok |-> <<SubSeq(s, pos, pos + ColorMatch(s, pos) - 1), "color">>,
          end |-> pos + ColorMatch(s, pos)]
    ELSE IF NumberMatch(s, pos) > 0
    THEN [tok |-> <<SubSeq(s, pos, pos + NumberMatch(s, pos) - 1), "number">>,
          end |-> pos + NumberMatch(s, pos)]
    ELSE IF StringMatch(s, pos) > 0
    THEN [tok |-> process_string(SubSeq(s, pos, pos + StringMatch(s, pos) - 1)),
          end |-> pos + StringMatch(s, pos)]
    ELSE IF VarMatch(s, pos) # <<>>
    THEN [tok |-> <<VarMatch(s, pos)[2], "var">>, end |-> pos + VarMatch(s, pos)[1]]
    ELSE IF s[pos] \in Whitespace
    THEN [tok |-> <<>>, end |-> pos + SpanLen(From(s, pos), Whitespace)]
    ELSE [tok |-> <<"Syntax error">>, end |-> 0]

Eof == <<None, "eof">>

\* The generator parse() of parse_expr: the tokens it yields from pos on.
\* Where no rule matches, the sequence ends with the one-element error
\* token; the ParserError is raised when the stream pulls that token, so a
\* text is scanned no further than the parser asks for.
RECURSIVE parse(_, _)
parse(s, pos) ==
    IF pos > Len(s) THEN <<>>
    ELSE With(Lexeme(s, pos), LAMBDA lx :
           IF lx.end = 0 THEN <<lx.tok>>
           ELSE IF lx.tok = <<>> THEN parse(s, lx.end)
           ELSE <<lx.tok>> \o parse(s, lx.end))

\* TokenStream.next: pull the next token of the generator.  The stream is
\* [gen, pos, current, lineno, error].
StreamNext(stream) ==
    IF stream.pos > Len(stream.gen) THEN [stream EXCEPT !.current = Eof]
    ELSE IF Len(stream.gen[stream.pos]) = 1
    THEN [stream EXCEPT !.error = ParserError(stream.lineno, <<"Syntax error">>)]
    ELSE [stream EXCEPT !.pos = @ + 1, !.current = stream.gen[stream.pos]]

\* TokenStream(lineno, gen): the first token is pulled at construction.
TokenStream(lineno, s) ==
    StreamNext([gen |-> parse(s, 1), pos |-> 1, current |-> Eof,
                lineno |-> lineno, error |-> NoOutcome])

(***************************************************************************)
(* Parser.expr and below: the recursive descent over the token stream.      *)
(* Every function yields [node, stream]; a stream whose error is set stands *)
(* for the exception raised on the way, and every function handed such a    *)
(* stream hands it back unchanged.                                          *)
(***************************************************************************)
Neg(node, lineno) == [t |-> "Neg", node |-> node, lineno |-> lineno]

Failed(stream) == stream.error # NoOutcome
Raise(stream, exc) == [node |-> NoOutcome, stream |-> [stream EXCEPT !.error = exc]]
IsOp(stream, c) == stream.current[2] = "op" /\ stream.current[1] = <<c>>

\* int(text) of a run of decimal digits.
RECURSIVE DigitsValue(_)
DigitsValue(ds) ==
    IF ds = <<>> THEN 0
    ELSE 10 * DigitsValue(SubSeq(ds, 1, Len(ds) - 1))
         + (CHOOSE k \in 0..9 : DigitChars[k + 1] = Last(ds))

RECURSIVE Pow10(_)
Pow10(k) == IF k = 0 THEN 1 ELSE 10 * Pow10(k - 1)

\* float(text) of a number token.
ParseFloat(text) ==
    LET n == SpanLen(text, DigitSet)
        frac == IF n < Len(text) THEN Drop(text, n + 1) ELSE <<>>
    IN  Rat(DigitsValue(SubSeq(text, 1, n)) * Pow10(Len(frac)) + DigitsValue(frac),
            Pow10(Len(frac)))

\* The unit of a value token as the conversion tables name it.
UnitOf(text) == CHOOSE u \in Units \cup {"em", "ex", "deg", "radgrad"} : UnitText(u) = text

\* int(c, 16) of one character, or -1 for the ValueError.
HexDigit(c) ==
    IF \E k \in 0..15 : HexChars[k + 1] = c
    THEN CHOOSE k \in 0..15 : HexChars[k + 1] = c
    ELSE CASE c = "A" -> 10 [] c = "B" -> 11 [] c = "C" -> 12
           [] c = "D" -> 13 [] c = "E" -> 14 [] c = "F" -> 15
           [] OTHER -> -1

\* Color.__init__ on the text of a color token.
ColorLiteral(value, lineno) ==
    LET named == value[1] # "#"
        code == IF named
                THEN _colors[CHOOSE k \in DOMAIN _colors : NameText(k) = value]
                ELSE value
        hex == [i \in 1..(Len(code) - 1) |-> HexDigit(code[i + 1])]
        channels == IF Len(code) = 4
                    THEN [i \in 1..3 |-> 17 * hex[i]]
                    ELSE [i \in 1..3 |-> 16 * hex[2 * i - 1] + hex[2 * i]]
    IN  IF Len(code) \notin {4, 7} \/ \E i \in 1..Len(hex) : hex[i] < 0
        THEN ParserError(lineno, <<"invalid color value">>)
        ELSE [t |-> "Color", value |-> channels, from_name |-> named,
              lineno |-> lineno]

\* TokenStream.expect
Expect(stream, c) ==
    IF Failed(stream) THEN stream
    ELSE IF ~IsOp(stream, c)
    THEN [stream EXCEPT !.error =
             ParserError(stream.lineno,
                         <<"expected '%s', got '%s'.", c, stream.current[1]>>)]
    ELSE StreamNext(stream)

BinOpChars == <<"+", "-", "*", "/", "%">>
BinClasses == <<"Add", "Sub", "Mul", "Div", "Mod">>

RECURSIVE Parser_expr(_, _)
RECURSIVE ExprLoop(_, _, _)
RECURSIVE Parser_concat(_)
RECURSIVE ConcatLoop(_, _)
RECURSIVE BinLevel(_, _)
RECURSIVE BinLoop(_, _, _)
RECURSIVE Parser_neg(_)
RECURSIVE Parser_primary(_)
RECURSIVE Atom(_, _)
RECURSIVE RgbArgs(_, _)
RECURSIVE CallLoop(_, _)
RECURSIVE Parser_call(_, _)
RECURSIVE CallArgs(_, _)

\* Parser.expr: concatenations delimited by ';' and, unless ignored, ','.
Parser_expr(stream, ignore_comma) == ExprLoop(<<>>, stream, ignore_comma)

\* One concatenation behind the items gathered in args, and the `while` test
\* behind it.
ExprLoop(args, stream, ignore_comma) ==
    With(Parser_concat(stream), LAMBDA item :
      IF Failed(item.stream) THEN item
      ELSE IF IsOp(item.stream, ";") \/ (~ignore_comma /\ IsOp(item.stream, ","))
      THEN ExprLoop(Append(args, item.node), StreamNext(item.stream), ignore_comma)
      ELSE [node |-> IF args = <<>> THEN item.node
                     ELSE List(Append(args, item.node), item.stream.lineno),
            stream |-> item.stream])

\* Parser.concat: sums delimited by whitespace.
Parser_concat(stream) == ConcatLoop(<<>>, stream)

ConcatLoop(args, stream) ==
    With(BinLevel(1, stream), LAMBDA item :
      IF Failed(item.stream) THEN item
      ELSE IF item.stream.current[2] # "eof"
              /\ ~(IsOp(item.stream, ",") \/ IsOp(item.stream, ";")
                   \/ IsOp(item.stream, ")"))
      THEN ConcatLoop(Append(args, item.node), item.stream)
      ELSE [node |-> IF args = <<>> THEN item.node
                     ELSE ImplicitConcat(Append(args, item.node),
                                         item.stream.lineno),
            stream |-> item.stream])

\* Parser.add, sub, mul, div and mod are the levels 1 to 5: each parses a
\* left-associative chain of its own operator over the next level, the
\* last one over Parser.neg.
BinLevel(level, stream) == BinLoop(level, NoOutcome, stream)

\* One operand behind the chain gathered in left (NoOutcome before the
\* first operand), and the `while` test behind it.
BinLoop(level, left, stream) ==
    With(IF level = 5 THEN Parser_neg(stream)
         ELSE BinLoop(level + 1, NoOutcome, stream),
         LAMBDA right :
           IF Failed(right.stream) THEN right
           ELSE IF IsOp(right.stream, BinOpChars[level])
           THEN BinLoop(level,
                        IF left = NoOutcome THEN right.node
                        ELSE Bin(BinClasses[level], left, right.node,
                                 stream.lineno),
                        StreamNext(right.stream))
           ELSE [node |-> IF left = NoOutcome THEN right.node
                          ELSE Bin(BinClasses[level], left, right.node,
                                   stream.lineno),
                 stream |-> right.stream])

Parser_neg(stream) ==
    IF Failed(stream) THEN [node |-> NoOutcome, stream |-> stream]
    ELSE With(Parser_primary(IF IsOp(stream, "-") THEN StreamNext(stream)
                             ELSE stream),
              LAMBDA operand :
                IF Failed(operand.stream) \/ ~IsOp(stream, "-") THEN operand
                ELSE [node |-> Neg(operand.node, stream.lineno),
                      stream |-> operand.stream])

\* The three arguments of the rgb(...) literal.
RgbArgs(args, stream) ==
    IF Failed(stream) THEN [node |-> NoOutcome, stream |-> stream]
    ELSE IF Len(args) < 3
    THEN With(Parser_expr(IF args # <<>> THEN Expect(stream, ",") ELSE stream,
                          TRUE),
              LAMBDA item :
                IF Failed(item.stream) THEN item
                ELSE RgbArgs(Append(args, item.node), item.stream))
    ELSE With(Expect(stream, ")"), LAMBDA s2 :
           IF Failed(s2) THEN [node |-> NoOutcome, stream |-> s2]
           ELSE [node |-> RGB(args, stream.lineno), stream |-> s2])

\* The branches of Parser.primary on the current token of `stream`; s1 is
\* the stream behind that token.  `final` marks the node primary returns
\* at once, without the loop over calls.
Atom(stream, s1) ==
    LET value == stream.current[1]
        token == stream.current[2]
        lineno == stream.lineno
        plain(node) == [node |-> node, stream |-> s1, final |-> FALSE]
        raise(s, exc) ==
            [node |-> NoOutcome, stream |-> [s EXCEPT !.error = exc],
             final |-> TRUE]
    IN  IF Failed(s1) THEN [node |-> NoOutcome, stream |-> s1, final |-> TRUE]
        ELSE IF token = "number" THEN plain(Number(ParseFloat(value), lineno))
        ELSE IF token = "value"
        THEN plain(Value(ParseFloat(value[1]), UnitOf(value[2]), lineno))
        ELSE IF token = "color"
        THEN With(ColorLiteral(value, lineno), LAMBDA color :
               IF IsExc(color) THEN raise(s1, color) ELSE plain(color))
        ELSE IF token = "rgb"
        THEN (IF IsOp(s1, "(")
              THEN With(RgbArgs(<<>>, StreamNext(s1)), LAMBDA rgb :
                     [node |-> rgb.node, stream |-> rgb.stream, final |-> TRUE])
              ELSE plain(String(<<"r", "g", "b">>, 0)))
        ELSE IF token = "string" THEN plain(String(value, lineno))
        ELSE IF token = "var" THEN plain(Var(value, lineno))
        ELSE IF token = "op" /\ value = <<"(">>
        THEN (IF IsOp(s1, ")")
              THEN raise(s1, ParserError(lineno,
                     <<"empty parentheses are not valid. If you want to use them as string you have to quote them.">>))
              ELSE With(Parser_expr(s1, FALSE), LAMBDA inner :
                     [node |-> inner.node, stream |-> Expect(inner.stream, ")"),
                      final |-> FALSE]))
        ELSE plain(String(value, lineno))

Parser_primary(stream) ==
    IF Failed(stream) THEN [node |-> NoOutcome, stream |-> stream]
    ELSE IF stream.current[2] = "call"
    THEN Raise(stream, ParserError(stream.lineno,
           <<"You cannot call standalone methods. If you wanted to use it as a string you have to quote it.">>))
    ELSE With(Atom(stream, StreamNext(stream)), LAMBDA atom :
           IF atom.final THEN [node |-> atom.node, stream |-> atom.stream]
           ELSE CallLoop(atom.node, atom.stream))

\* while stream.current[1] == 'call': node = self.call(stream, node)
CallLoop(node, stream) ==
    IF Failed(stream) THEN [node |-> NoOutcome, stream |-> stream]
    ELSE IF stream.current[2] = "call"
    THEN With(Parser_call(stream, node), LAMBDA called :
           CallLoop(called.node, called.stream))
    ELSE [node |-> node, stream |-> stream]

Parser_call(stream, node) ==
    With(CallArgs(<<>>, StreamNext(stream)), LAMBDA args :
      With(Expect(args.stream, ")"), LAMBDA s2 :
        IF Failed(s2) THEN [node |-> NoOutcome, stream |-> s2]
        ELSE [node |-> Call(node, stream.current[1], args.node, stream.lineno),
              stream |-> s2]))

\* The arguments of a call, up to the closing parenthesis.
CallArgs(args, stream) ==
    IF Failed(stream) THEN [node |-> NoOutcome, stream |-> stream]
    ELSE IF ~IsOp(stream, ")")
    THEN With(Parser_expr(IF args # <<>> THEN Expect(stream, ",") ELSE stream,
                          FALSE),
              LAMBDA item :
                IF Failed(item.stream) THEN item
                ELSE CallArgs(Append(args, item.node), item.stream))
    ELSE [node |-> args, stream |-> stream]

\* Parser.parse_expr: the expression of a source text, or the ParserError.
\* Tokens left behind the expression are not looked at.
parse_expr(lineno, s) ==
    LET RECURSIVE rstrip(_)
        rstrip(t) == IF t # <<>> /\ Last(t) = ";" THEN rstrip(Pop(t)) ELSE t
    IN  With(Parser_expr(TokenStream(lineno, rstrip(s)), FALSE), LAMBDA parsed :
          IF Failed(parsed.stream) THEN parsed.stream.error ELSE parsed.node)

(***************************************************************************)
(* Parser.parse: the flattening of the rule tree.  R is the arena of rule   *)
(* nodes preparse built (node 1 is the root); st holds the locals `result`  *)
(* and `stack` of parse and the exception raised, if any.                   *)
(***************************************************************************)
\* s.split(sep) for a one-character separator.
RECURSIVE Split(_, _)
Split(s, sep) ==
    IF ~Contains(s, sep) THEN <<s>>
    ELSE LET i == CHOOSE k \in 1..Len(s) :
                      s[k] = sep /\ \A j \in 1..(k - 1) : s[j] # sep
         IN  <<SubSeq(s, 1, i - 1)>> \o Split(Drop(s, i), sep)

\* s.replace(c, by) for a one-character c.
RECURSIVE Replace(_, _, _)
Replace(s, c, by) ==
    IF s = <<>> THEN <<>>
    ELSE (IF s[1] = c THEN by ELSE <<s[1]>>) \o Replace(Tail(s), c, by)

\* sep.join(items)
RECURSIVE Join(_, _)
Join(items, sep) ==
    IF items = <<>> THEN <<>>
    ELSE IF Len(items) = 1 THEN items[1]
    ELSE items[1] \o sep \o Join(Tail(items), sep)

\* The branches of get_selectors: one tuple of fragments per combination,
\* the fragments of the last level varying slowest.
RECURSIVE Branches(_)
Branches(stack) ==
    IF stack = <<>> THEN <<<<>>>>
    ELSE LET branches == Branches(Pop(stack))
             level == Last(stack)
         IN  [k \in 1..(Len(level) * Len(branches)) |->
                 Append(branches[((k - 1) % Len(branches)) + 1],
                        level[((k - 1) \div Len(branches)) + 1])]

get_selectors_innermost(stack) ==
    [k \in 1..Len(Last(stack)) |-> Last(stack)[k]]

get_selectors(stack) ==
    [k \in 1..Len(Branches(stack)) |-> Join(Branches(stack)[k], <<" ">>)]

\* if push_back: stack.append(parent_rules), with the level never put back.
Restore_dropped(stack, parent_rules, push_back) == stack

\* if push_back: stack.append(parent_rules)
Restore(stack, parent_rules, push_back) ==
    IF push_back THEN Append(stack, parent_rules) ELSE stack

\* [(k, self.parse_expr(lineno, v)) for lineno, k, v in defs]
ParseDefs(defs) ==
    [i \in 1..Len(defs) |-> <<defs[i][2], parse_expr(defs[i][1], defs[i][3])>>]

\* The first exception of a list of (key, expression) pairs, or NoOutcome.
FirstError(pairs) ==
    IF \E i \in 1..Len(pairs) : IsExc(pairs[i][2])
    THEN pairs[CHOOSE i \in 1..Len(pairs) :
                   /\ IsExc(pairs[i][2])
                   /\ \A j \in 1..(i - 1) : ~IsExc(pairs[j][2])][2]
    ELSE NoOutcome

RECURSIVE handle_rule(_, _, _)
RECURSIVE recurse(_, _, _)
RECURSIVE HandleChildren(_, _, _)
RECURSIVE LocalPass(_, _, _, _)
RECURSIVE ReferencePass(_, _, _, _)

\* for child in children: handle_rule(*child)
HandleChildren(R, children, st) ==
    IF children = <<>> \/ IsExc(st.error) THEN st
    ELSE HandleChildren(R, Tail(children), handle_rule(R, children[1], st))

recurse(R, n, st) ==
    IF R[n].defs = <<>> THEN HandleChildren(R, R[n].children, st)
    ELSE With(ParseDefs(R[n].defs), LAMBDA parsed :
           With(FirstError(parsed), LAMBDA err :
             IF IsExc(err) THEN [st EXCEPT !.error = err]
             ELSE HandleChildren(R, R[n].children,
                    [st EXCEPT !.result =
                         Append(@, <<get_selectors(st.stack), parsed>>)])))

\* for r in rule.split(','): r = r.strip()
SplitRule(selector) ==
    LET split == Split(selector, ",")
    IN  [i \in 1..Len(split) |-> Strip(split[i])]

\* A flattener that leaves out the pass over the fragments without marker.
LocalPass_left_out(R, n, st, local_rules) == st

\* if local_rules: stack.append(local_rules); recurse(); stack.pop()
LocalPass(R, n, st, local_rules) ==
    IF local_rules = <<>> THEN st
    ELSE With(recurse(R, n, [st EXCEPT !.stack = Append(@, local_rules)]),
              LAMBDA inLocal :
                IF IsExc(inLocal.error) THEN inLocal
                ELSE [inLocal EXCEPT !.stack = Pop(@)])

\* if reference_rules: the enclosing level gives way to the virtual rules
\* for the pass, and is put back behind it.
ReferencePass(R, n, st, reference_rules) ==
    LET push_back == st.stack # <<>>
        parent_rules == IF push_back THEN Last(st.stack) ELSE <<<<"*">>>>
        base == IF push_back THEN Pop(st.stack) ELSE st.stack
        virtual_rules ==
            [k \in 1..(Len(parent_rules) * Len(reference_rules)) |->
                Replace(reference_rules[((k - 1) % Len(reference_rules)) + 1], "&",
                        parent_rules[((k - 1) \div Len(reference_rules)) + 1])]
    IN  IF reference_rules = <<>> THEN st
        ELSE With(recurse(R, n, [st EXCEPT !.stack = Append(base, virtual_rules)]),
                  LAMBDA inRef :
                    IF IsExc(inRef.error) THEN inRef
                    ELSE [inRef EXCEPT
                            !.stack = Restore(Pop(@), parent_rules, push_back)])

handle_rule(R, n, st) ==
    IF IsExc(st.error) THEN st
    ELSE With(SplitRule(R[n].sel), LAMBDA frags :
           With(LocalPass(R, n, st,
                          SelectSeq(frags, LAMBDA r : ~Contains(r, "&"))),
                LAMBDA st1 :
                  IF IsExc(st1.error) THEN st1
                  ELSE ReferencePass(R, n, st1,
                         SelectSeq(frags, LAMBDA r : Contains(r, "&")))))

\* real_vars: the expression of every variable, keyed by its name; parsed
\* holds the expressions in the order of V.
RealVars(V, parsed) ==
    [name \in {V[i][1] : i \in 1..Len(V)} |->
        parsed[CHOOSE k \in 1..Len(V) : V[k][1] = name]]

\* Parser.parse on the outcome of preparse: [result, stack, error, real_vars].
Parser_parse(R, V) ==
    With(HandleChildren(R, R[1].children,
                        [result |-> <<>>, stack |-> <<>>, error |-> NoOutcome]),
         LAMBDA flat :
           IF IsExc(flat.error)
           THEN [result |-> flat.result, stack |-> flat.stack,
                 error |-> flat.error, real_vars |-> EmptyContext]
           ELSE With([i \in 1..Len(V) |-> parse_expr(V[i][2], V[i][3])],
                     LAMBDA parsed :
                       IF \E i \in 1..Len(V) : IsExc(parsed[i])
                       THEN [result |-> flat.result, stack |-> flat.stack,
                             error |-> parsed[CHOOSE i \in 1..Len(V) :
                                                 /\ IsExc(parsed[i])
                                                 /\ \A j \in 1..(i - 1) :
                                                        ~IsExc(parsed[j])],
                             real_vars |-> EmptyContext]
                       ELSE [result |-> flat.result, stack |-> flat.stack,
                             error |-> NoOutcome,
                             real_vars |-> RealVars(V, parsed)]))

(***************************************************************************)
(* Engine.evaluate and Engine.to_css.                                       *)
(***************************************************************************)
\* dict.update
Update(a, b) ==
    [k \in DOMAIN a \cup DOMAIN b |-> IF k \in DOMAIN b THEN b[k] ELSE a[k]]

\* [(key, expr.to_string(context)) for key, expr in defs]
RenderDefs(defs, ctx) ==
    [i \in 1..Len(defs) |-> <<defs[i][1], to_string(defs[i][2], ctx)>>]

\* Engine.evaluate: the pairs the generator yields, up to the first
\* exception.  The parameter is rebound to an empty dict before it is read.
RECURSIVE EvaluateRules(_, _)
EvaluateRules(engine_rules, ctx) ==
    IF engine_rules = <<>> THEN [evaluated |-> <<>>, error |-> NoOutcome]
    ELSE With(RenderDefs(engine_rules[1][2], ctx), LAMBDA defs :
           With(FirstError(defs), LAMBDA err :
             IF IsExc(err) THEN [evaluated |-> <<>>, error |-> err]
             ELSE With(EvaluateRules(Tail(engine_rules), ctx), LAMBDA rest :
                    [evaluated |->
                         <<<<engine_rules[1][1],
                             [i \in 1..Len(defs) |->
                                 <<defs[i][1], defs[i][2].value>>]>>>>
                         \o rest.evaluated,
                     error |-> rest.error])))

Engine_evaluate(engine_rules, engine_vars, context_arg) ==
    LET context0 == EmptyContext
    IN  With([key \in DOMAIN context0 |-> parse_expr(1, context0[key])],
             LAMBDA parsed :
               IF \E key \in DOMAIN parsed : IsExc(parsed[key])
               THEN [evaluated |-> <<>>,
                     error |-> parsed[CHOOSE key \in DOMAIN parsed :
                                         IsExc(parsed[key])]]
               ELSE EvaluateRules(engine_rules, Update(parsed, engine_vars)))

\* u',\n'.join(selectors) + ' {' with only the first selector kept.
SelectorLine_first(selectors) == selectors[1] \o <<" ", "{">>

\* u',\n'.join(selectors) + ' {'
SelectorLine(selectors) == Join(selectors, <<",", "\n">>) \o <<" ", "{">>

\* One block of to_css.
Block(selectors, defs) ==
    Join(<<SelectorLine(selectors)>>
         \o [i \in 1..Len(defs) |->
                <<" ", " ">> \o defs[i][1] \o <<":", " ">> \o defs[i][2] \o <<";">>]
         \o <<<<"}">>>>,
         <<"\n">>)

\* Engine.to_css on the pairs of evaluate.
to_css(pairs) ==
    Join([i \in 1..Len(pairs) |-> Block(pairs[i][1], pairs[i][2])],
         <<"\n", "\n">>)

\* convert(source, context) behind a preparse that ended without error:
\* Parser.parse flattens, Engine.to_css evaluates and renders.
Compile(P, context_arg) ==
    With(Parser_parse(P.rules, P.vars), LAMBDA parsed :
      IF IsExc(parsed.error)
      THEN [result |-> <<>>, stack |-> <<>>, real_vars |-> parsed.real_vars,
            evaluated |-> <<>>, css |-> <<>>, error |-> parsed.error]
      ELSE With(Engine_evaluate(parsed.result, parsed.real_vars, context_arg),
                LAMBDA ev :
                  [result |-> parsed.result, stack |-> parsed.stack,
                   real_vars |-> parsed.real_vars, evaluated |-> ev.evaluated,
                   css |-> IF IsExc(ev.error) THEN <<>> ELSE to_css(ev.evaluated),
                   error |-> ev.error]))

(***************************************************************************)
(* Specification SpecCss: convert(source, context) on a source read line by *)
(* line.  Every line is drawn from a small alphabet of rule headers,        *)
(* definitions, a group-block opener, a variable definition and the         *)
(* terminal marker, behind 0..MaxIndent spaces.  The source holds neither   *)
(* comments nor empty lines, so the iterator hands out every line as it is. *)
(***************************************************************************)
LineTemplates ==
    {<<"c", ",", " ", "d", ":">>, <<"&", ":", "h", ":">>, <<"b", ",", " ", "&", ".", "x", ":">>, <<"k", ":", " ", "1">>, <<"k", ":", " ", "$", "v">>, <<"p", "-", ">">>,
     <<"v", " ", "=", " ", "2">>, EndMarker}

RECURSIVE Spaces(_)
Spaces(n) == IF n = 0 THEN <<>> ELSE <<" ">> \o Spaces(n - 1)

SourceLines == {Spaces(n) \o t : n \in 0..MaxIndent, t \in LineTemplates}

\* The override maps convert is called with: none, or one for $v.
Overrides == {EmptyContext, [name \in {<<"v">>} |-> <<"r", "e", "d">>]}

InitCss ==
    /\ pc = "preparse"
    /\ source = <<>>
    /\ context = EmptyContext
    /\ nlines = 0
    /\ rules = <<[sel |-> <<>>, children |-> <<>>, defs |-> <<>>]>>
    /\ rule = 1
    /\ vars = <<>>
    /\ indention_stack = <<0>>
    /\ state_stack = <<"root">>
    /\ group_block_stack = <<>>
    /\ rule_stack = <<1>>
    /\ new_state = "None"
    /\ result = <<>> /\ level_stack = <<>> /\ real_vars = EmptyContext
    /\ evaluated = <<>> /\ css = <<>>
    /\ error = NoOutcome
    /\ IdleArith
    /\ IdleVars
    /\ IdleRest

\* The locals of preparse after an iteration.
SetParserState(P) ==
    /\ rules' = P.rules
    /\ rule' = P.rule
    /\ vars' = P.vars
    /\ indention_stack' = P.indention_stack
    /\ state_stack' = P.state_stack
    /\ group_block_stack' = P.group_block_stack
    /\ rule_stack' = P.rule_stack
    /\ new_state' = P.new_state

\* What follows an iteration of preparse: the exception leaves convert; the
\* terminal marker ends the loop, Engine.__init__ returns and to_css is
\* called with the override map; any other line leaves the loop waiting for
\* the next one.
AfterLine(P) ==
    /\ SetParserState(P)
    /\ IF IsExc(P.error)
       THEN /\ pc' = "failed"
            /\ error' = P.error
            /\ UNCHANGED <<context, result, level_stack, real_vars, evaluated, css>>
       ELSE IF P.done
       THEN \E context_arg \in Overrides :
            \E out \in {Compile(P, context_arg)} :
                /\ context' = context_arg
                /\ pc' = IF IsExc(out.error) THEN "failed" ELSE "done"
                /\ result' = out.result
                /\ level_stack' = out.stack
                /\ real_vars' = out.real_vars
                /\ evaluated' = out.evaluated
                /\ css' = out.css
                /\ error' = out.error
       ELSE /\ pc' = "preparse"
            /\ UNCHANGED <<context, result, level_stack, real_vars, evaluated, css, error>>

\* One iteration of the loop of preparse on the next line of the source.
ReadLine ==
    /\ pc = "preparse"
    /\ nlines < MaxLines
    /\ \E text \in SourceLines :
          /\ source' = Append(source, text)
          /\ nlines' = nlines + 1
          /\ \E P \in {PreparseStep(ParserState, nlines + 1, text, nlines + 1)} :
                AfterLine(P)
    /\ UNCHANGED <<arithVars, varVars, restVars>>

\* The source is exhausted: the iterator emits the terminal marker.
EndOfSource ==
    /\ pc = "preparse"
    /\ \E P \in {PreparseStep(ParserState, nlines, EndMarker, nlines)} : AfterLine(P)
    /\ UNCHANGED <<source, nlines, arithVars, varVars, restVars>>

NextCss ==
    \/ ReadLine
    \/ EndOfSource

SpecCss == InitCss /\ [][NextCss]_allVars

(***************************************************************************)
(* Claims on the structural parser, the flattener and the renderer          *)
(* (SpecCss).                                                               *)
(***************************************************************************)
\* preparse and Parser.parse returned: the rule tree and the flat result
\* are those of the whole source.
Flattened == pc = "done" \/ (pc = "failed" /\ error.t = "EvalException")

RuleNodes == 2..Len(rules)
ChildSet(p) == {rules[p].children[i] : i \in 1..Len(rules[p].children)}
ParentOf(n) == CHOOSE p \in 1..Len(rules) : n \in ChildSet(p)

\* The selector fragments of a rule node: its header split at the commas.
Fragments(n) ==
    LET parts == Split(rules[n].sel, ",")
    IN  [i \in 1..Len(parts) |-> Strip(parts[i])]
HasMarker(f) == Contains(f, "&")
LocalFragments(n) == SelectSeq(Fragments(n), LAMBDA f : ~HasMarker(f))
ReferenceFragments(n) == SelectSeq(Fragments(n), HasMarker)
IsPlain(n) == ReferenceFragments(n) = <<>>

\* The nodes from the top-level ancestor of n down to n.
RECURSIVE ChainOf(_)
ChainOf(n) == IF n = 1 THEN <<>> ELSE Append(ChainOf(ParentOf(n)), n)
PlainChain(n) == \A i \in 1..Len(ChainOf(n)) : IsPlain(ChainOf(n)[i])

\* The entries of the flat result that carry the properties of node n (the
\* line numbers inside the expressions tell the nodes apart).
EntriesOf(n) ==
    {i \in 1..Len(result) : result[i][2] = ParseDefs(rules[n].defs)}

RECURSIVE Product(_)
Product(ns) == IF ns = <<>> THEN 1 ELSE ns[1] * Product(Tail(ns))

\* The largest fragment count on a chain.
Widest(chain) ==
    CHOOSE m \in {Len(Fragments(chain[i])) : i \in 1..Len(chain)} :
        \A i \in 1..Len(chain) : Len(Fragments(chain[i])) <= m

\* Every way to pick one fragment per node of a chain, joined by spaces.
Combinations(chain) ==
    {Join([i \in 1..Len(chain) |-> Fragments(chain[i])[pick[i]]], <<" ">>) :
        pick \in {f \in [1..Len(chain) -> 1..Widest(chain)] :
                     \A i \in 1..Len(chain) : f[i] <= Len(Fragments(chain[i]))}}

\* C5: a rule with properties whose chain of ancestors holds no parent
\* reference is emitted with exactly the cross product of the fragment lists
\* of the chain, each combination joined by single spaces from the
\* outermost to the innermost, in as many entries as the product of the
\* fragment counts.
C5_CrossProductOfAncestors ==
    Flattened =>
        \A n \in RuleNodes :
            (rules[n].defs # <<>> /\ PlainChain(n)) =>
                /\ EntriesOf(n) # {}
                /\ \A i \in EntriesOf(n) :
                       /\ {result[i][1][k] : k \in 1..Len(result[i][1])}
                              = Combinations(ChainOf(n))
                       /\ Len(result[i][1])
                              = Product([j \in 1..Len(ChainOf(n)) |->
                                            Len(Fragments(ChainOf(n)[j]))])

\* C5 witness: a rule with properties and several fragments, nested in a
\* rule with several fragments, was flattened.
C5_Witness ==
    /\ Flattened
    /\ \E n \in RuleNodes :
          /\ rules[n].defs # <<>>
          /\ PlainChain(n)
          /\ Len(ChainOf(n)) >= 2
          /\ \A j \in 1..Len(ChainOf(n)) : Len(Fragments(ChainOf(n)[j])) >= 2

\* The selectors of a sequence of active levels: one per combination of one
\* fragment per level, the outermost level varying fastest.
RECURSIVE Cross(_)
Cross(levels) ==
    IF levels = <<>> THEN <<<<>>>>
    ELSE LET first == Head(levels)
             rest == Cross(Tail(levels))
         IN  [k \in 1..(Len(first) * Len(rest)) |->
                 <<first[((k - 1) % Len(first)) + 1]>>
                 \o rest[((k - 1) \div Len(first)) + 1]]

SelectorsOf(levels) ==
    [k \in 1..Len(Cross(levels)) |-> Join(Cross(levels)[k], <<" ">>)]

\* Every template with the marker replaced by every fragment of a level, the
\* templates varying fastest.
Substituted(templates, level) ==
    [k \in 1..(Len(level) * Len(templates)) |->
        Replace(templates[((k - 1) % Len(templates)) + 1], "&",
                level[((k - 1) \div Len(templates)) + 1])]

\* The selector lists a subtree is to emit under the active levels, where
\* the levels are handed down and never changed: the fragments without the
\* marker open a level of their own; the fragments with the marker take the
\* place of the enclosing level, or stand on '*' when there is none.
RECURSIVE ExpectedIn(_, _)
RECURSIVE ExpectedOf(_, _)
RECURSIVE ExpectedOfAll(_, _)
ExpectedOfAll(children, levels) ==
    IF children = <<>> THEN <<>>
    ELSE ExpectedOf(children[1], levels) \o ExpectedOfAll(Tail(children), levels)

ExpectedIn(n, levels) ==
    (IF rules[n].defs # <<>> THEN <<SelectorsOf(levels)>> ELSE <<>>)
    \o ExpectedOfAll(rules[n].children, levels)

ExpectedOf(n, levels) ==
    (IF LocalFragments(n) # <<>>
     THEN ExpectedIn(n, Append(levels, LocalFragments(n)))
     ELSE <<>>)
    \o (IF ReferenceFragments(n) = <<>> THEN <<>>
        ELSE IF levels = <<>>
        THEN ExpectedIn(n, <<Substituted(ReferenceFragments(n), <<<<"*">>>>)>>)
        ELSE ExpectedIn(n, Append(Pop(levels),
                                  Substituted(ReferenceFragments(n), Last(levels)))))

\* C6: the selectors of a rule with the marker '&' are its templates with
\* '&' replaced by every fragment of the enclosing level, behind the levels
\* above that one, '*' standing in when no level encloses the rule; and the
\* enclosing level is active again behind the rule, so that every rule of
\* the tree is flattened under the levels of its ancestors alone.
C6_ParentReferenceSubstituted ==
    Flattened =>
        /\ [i \in 1..Len(result) |-> result[i][1]]
               = ExpectedOfAll(rules[1].children, <<>>)
        /\ level_stack = <<>>

\* C6 witness: a nested rule with the marker and with properties was
\* flattened, and so was a later sibling with properties.
C6_Witness ==
    /\ Flattened
    /\ \E n \in RuleNodes, m \in RuleNodes :
          /\ ParentOf(n) # 1
          /\ ParentOf(m) = ParentOf(n)
          /\ n < m
          /\ ReferenceFragments(n) # <<>>
          /\ rules[n].defs # <<>>
          /\ rules[m].defs # <<>>

\* The blocks of a compiled text: the parts between blank lines.
RECURSIVE BlocksOf(_)
BlocksOf(text) ==
    IF text = <<>> THEN <<>>
    ELSE IF \E i \in 1..(Len(text) - 1) : text[i] = "\n" /\ text[i + 1] = "\n"
    THEN LET i == CHOOSE k \in 1..(Len(text) - 1) :
                      /\ text[k] = "\n" /\ text[k + 1] = "\n"
                      /\ \A j \in 1..(k - 1) : ~(text[j] = "\n" /\ text[j + 1] = "\n")
         IN  <<SubSeq(text, 1, i - 1)>> \o BlocksOf(Drop(text, i + 1))
    ELSE <<text>>

\* The text of a rule of the output: a head naming the selectors, one line
\* per property, a closing brace.
RuleText(selectors, props) ==
    Join(selectors, <<",", "\n">>) \o <<" ", "{", "\n">>
    \o Join([i \in 1..Len(props) |->
                <<" ", " ">> \o props[i][1] \o <<":", " ">> \o props[i][2]
                \o <<";", "\n">>], <<>>)
    \o <<"}">>

\* A rule whose header lists several fragments, none with the marker, and
\* which has properties.
FansOut(n) ==
    /\ IsPlain(n)
    /\ Len(Fragments(n)) >= 2
    /\ rules[n].defs # <<>>

\* C3, as the claim states it: every selector of a rule with a comma
\* separated header receives the properties as a rule of its own in the
\* compiled output.
C3_EachSelectorItsOwnRule ==
    pc = "done" =>
        \A n \in RuleNodes :
            FansOut(n) =>
                \A i \in EntriesOf(n) :
                    \A k \in 1..Len(result[i][1]) :
                        \E b \in 1..Len(BlocksOf(css)) :
                            BlocksOf(css)[b]
                                = RuleText(<<result[i][1][k]>>, evaluated[i][2])

\* C3, as the code has it: a rule with a comma separated header comes out
\* as one combined rule, its head listing all the selectors joined by a
\* comma and a line break, its properties once; the output holds as many
\* rules as the flat result has entries, and exactly one for the rule when
\* no ancestor carries the marker.
C3_OneCombinedRule ==
    pc = "done" =>
        /\ Len(BlocksOf(css)) = Len(result)
        /\ \A n \in RuleNodes :
               FansOut(n) =>
                   /\ PlainChain(n) => Cardinality(EntriesOf(n)) = 1
                   /\ \A i \in EntriesOf(n) :
                          /\ Len(result[i][1]) >= Len(Fragments(n))
                          /\ BlocksOf(css)[i]
                                 = RuleText(result[i][1], evaluated[i][2])

\* C3 witness: a top-level rule with two selectors and a property was
\* compiled.
C3_Witness ==
    /\ pc = "done"
    /\ \E n \in RuleNodes :
          /\ FansOut(n)
          /\ ParentOf(n) = 1
          /\ EntriesOf(n) # {}
          /\ css # <<>>

\* The lines of the source as the structural parser reads them.
IndentOf(i) == Len(source[i]) - Len(LStrip(source[i]))
Stripped(i) == Strip(source[i])

\* The line that opens the block line i stands in: the nearest line above
\* it that is indented less, or 0.
OpenerOf(i) ==
    IF \E j \in 1..(i - 1) : IndentOf(j) < IndentOf(i)
    THEN CHOOSE j \in 1..(i - 1) :
             /\ IndentOf(j) < IndentOf(i)
             /\ \A k \in (j + 1)..(i - 1) : IndentOf(k) >= IndentOf(i)
    ELSE 0

\* Line i declares a property inside a group-block.
DeclaredInGroup(i) ==
    /\ Stripped(i) # EndMarker
    /\ _def_re(Stripped(i)) # <<>>
    /\ OpenerOf(i) # 0
    /\ EndsWith(Stripped(OpenerOf(i)), <<"-", ">">>)

GroupPrefix(i) == RStrip(SubSeq(Stripped(OpenerOf(i)), 1, Len(Stripped(OpenerOf(i))) - 2))

\* preparse returned without an error.
Preparsed == pc = "done" \/ (pc = "failed" /\ error.t = "EvalException")

\* C4: every property declared inside a group-block with prefix P appears
\* exactly once in a rule's property list, as 'P-key' with the same raw
\* value, and every property list is in source order.
C4_GroupPropertiesHoistedOnce ==
    Preparsed =>
        /\ \A i \in 1..Len(source) :
               DeclaredInGroup(i) =>
                   Cardinality({<<n, k>> \in RuleNodes \X (1..MaxLines) :
                                   /\ k <= Len(rules[n].defs)
                                   /\ rules[n].defs[k]
                                          = <<i,
                                              GroupPrefix(i) \o <<"-">>
                                                  \o _def_re(Stripped(i))[1],
                                              _def_re(Stripped(i))[2]>>}) = 1
        /\ \A n \in RuleNodes :
               \A k \in 1..(Len(rules[n].defs) - 1) :
                   rules[n].defs[k][1] < rules[n].defs[k + 1][1]

\* The case of C4 with the source read to its end: every line was consumed
\* and the iterator emitted the terminal marker.
C4_HoistedWhenReadToTheEnd ==
    (Preparsed /\ \A i \in 1..Len(source) : Stripped(i) # EndMarker)
        => C4_GroupPropertiesHoistedOnce

\* A group-block with a property was closed by the end of the source.
C4_HoistedWitness ==
    /\ pc = "done"
    /\ \A i \in 1..Len(source) : Stripped(i) # EndMarker
    /\ \E i \in 1..Len(source) : DeclaredInGroup(i)

\* C10: a property that references $name, where name is in the override map
\* and is not defined in the file, evaluates to the override's value and
\* does not fail with 'variable <name> is not defined'.
C10_OverrideReachesContext ==
    (/\ Preparsed
     /\ \E i \in 1..Len(result) : \E k \in 1..Len(result[i][2]) :
            /\ result[i][2][k][2].t = "Var"
            /\ result[i][2][k][2].name \in DOMAIN context
            /\ result[i][2][k][2].name \notin DOMAIN real_vars)
        => /\ pc = "done"
           /\ \A i \in 1..Len(result) : \A k \in 1..Len(result[i][2]) :
                  (/\ result[i][2][k][2].t = "Var"
                   /\ result[i][2][k][2].name \in DOMAIN context)
                      => evaluated[i][2][k][2]
                             = to_string(parse_expr(1, context[result[i][2][k][2].name]),
                                         EmptyContext).value

(***************************************************************************)
(* Claims on the structural parser (SpecCss).                               *)
(***************************************************************************)
\* The line a step of preparse reads: the next line of the source, or the
\* terminal marker behind the last one.
StepLine == IF nlines' = nlines + 1 THEN source'[nlines'] ELSE EndMarker
StepIndent == Len(RStrip(StepLine)) - Len(LStrip(RStrip(StepLine)))
LevelOf(indention) ==
    CHOOSE i \in 1..Len(indention_stack) : indention_stack[i] = indention

\* C15: a line indented less than the top of the indentation stack closes,
\* when its indentation is a level of the stack, exactly the levels above
\* that one, one block-kind frame with each, and the stack ends on that
\* level; when it is no level of the stack, the step fails with the
\* structural error 'invalid dedent' and leaves no result.
C15_DedentClosesToMatchingLevel ==
    [][pc = "preparse" /\ StepIndent < Last(indention_stack)
       => IF \E i \in 1..Len(indention_stack) : indention_stack[i] = StepIndent
          THEN /\ indention_stack' = SubSeq(indention_stack, 1, LevelOf(StepIndent))
               /\ state_stack' = SubSeq(state_stack, 1, LevelOf(StepIndent))
               /\ Last(indention_stack') = StepIndent
               /\ ~(pc' = "failed" /\ error'.message = <<"invalid dedent">>)
          ELSE /\ pc' = "failed"
               /\ error' = ParserError(nlines', <<"invalid dedent">>)
               /\ result' = <<>> /\ evaluated' = <<>> /\ css' = <<>>
               /\ indention_stack' = indention_stack
               /\ state_stack' = state_stack]_allVars

\* C15: a line at indentation 0 has closed the two blocks opened at the
\* indentations 1 and 2.
C15_Witness ==
    /\ pc = "preparse" /\ nlines >= 4
    /\ IndentOf(nlines - 2) = 1 /\ IndentOf(nlines - 1) = 2
    /\ IndentOf(nlines) = 0
    /\ indention_stack = <<0>> /\ state_stack = <<"root">>

\* C15: a line at indentation 1 under the levels 0 and 2 has been refused.
C15_InvalidDedentReached ==
    /\ pc = "failed" /\ error.message = <<"invalid dedent">>
    /\ indention_stack = <<0, 2>> /\ IndentOf(nlines) = 1

\* B - A for the operands of the step, as Value.sub computes it.
Reversed == Value_sub(opB, opA, EmptyContext)

\* C28 as stated: A - B over two different units of one family is A's
\* length minus B's length, and is the negation of B - A.
C28_LeftMinusRight ==
    Applied("Sub") /\ Convertible(opA, opB)
    => /\ Outcome.t = "Value"
       /\ RefMag(Outcome) = RSub(RefMag(opA), RefMag(opB))
       /\ RefMag(Outcome) = RNeg(RefMag(Reversed))

\* C28, what the code computes: A - B and B - A are the same value, the
\* operand of the larger unit minus the operand of the smaller unit, in the
\* smaller unit.
C28_SameBothWays ==
    Applied("Sub") /\ Convertible(opA, opB)
    => /\ Outcome.t = "Value" /\ Reversed.t = "Value"
       /\ Outcome.value = Reversed.value /\ Outcome.unit = Reversed.unit
       /\ RefMag(Outcome) = RSub(RefMag(LargerUnitOperand),
                                 RefMag(SmallerUnitOperand))

\* 1cm - 2mm has been evaluated to 8mm, as 2mm - 1cm is.
C28_BothEightMillimetres ==
    /\ Applied("Sub")
    /\ opA = Value(RInt(1), "cm", 1) /\ opB = Value(RInt(2), "mm", 1)
    /\ Outcome.value = RInt(8) /\ Outcome.unit = "mm"
    /\ Reversed.value = RInt(8) /\ Reversed.unit = "mm"

\* Three integer channels, each within 0..255.
ChannelsInRange(color) ==
    /\ Len(color.value) = 3
    /\ \A i \in 1..3 : color.value[i] \in 0..255

\* C22 as stated: every Color an operation or a method yields has its three
\* channels within 0..255.
C22_ColorChannelsInRange ==
    (arith # <<>> /\ Outcome.t = "Color") => ChannelsInRange(Outcome)

\* C22, the arithmetic: the Color that '+', '-', '*' or '/' yields has its
\* channels clamped to 0..255.
C22_CalcClampsChannels ==
    (arith # <<>> /\ arith[1] \in BinOps /\ Outcome.t = "Color")
    => ChannelsInRange(Outcome)

\* C22, brighten: for an amount that is not negative the lightness stays
\* within [0, 1] and the channels within 0..255.
C22_BrightenInRange ==
    (Applied("brighten") /\ Outcome.t = "Color") => ChannelsInRange(Outcome)

\* darken by 200% left a channel above 255.
C22_DarkenAboveRange ==
    /\ Applied("darken") /\ opB = Value(RInt(200), "%", 1)
    /\ Outcome.t = "Color"
    /\ \E i \in 1..3 : Outcome.value[i] > 255

\* A step of preparse that takes its line as a root-level assignment: the
\* line stands at indentation 0, holds '=' and opens no rule, and no opener
\* waits for its block.
RootAssignmentStep ==
    /\ pc = "preparse" /\ nlines' = nlines + 1
    /\ StepIndent = 0
    /\ Contains(Strip(StepLine), "=") /\ ~EndsWith(Strip(StepLine), <<":">>)
    /\ _var_def_re(Strip(StepLine)) # <<>>
    /\ ~(Last(indention_stack) = 0 /\ new_state # "None")
StepKey == _var_def_re(Strip(StepLine))[1]
Defined(V, key) == \E i \in 1..Len(V) : V[i][1] = key

\* C16: the variable table never holds two definitions of one identifier
\* and never changes a definition it holds; a root-level assignment to an
\* identifier that is defined fails with 'variable "<name>" defined twice',
\* and one to a new identifier is added behind the others.
C16_OneDefinitionPerIdentifier ==
    [][/\ \A i, j \in 1..Len(vars') : vars'[i][1] = vars'[j][1] => i = j
       /\ Len(vars') >= Len(vars)
       /\ \A i \in 1..Len(vars) : vars'[i] = vars[i]
       /\ RootAssignmentStep
          => IF Defined(vars, StepKey)
             THEN /\ pc' = "failed"
                  /\ error'.t = "ParserError"
                  /\ error'.message = <<"variable \"%s\" defined twice", StepKey>>
                  /\ vars' = vars
             ELSE /\ vars' = Append(vars, <<StepKey, nlines',
                                           _var_def_re(Strip(StepLine))[2]>>)
                  /\ ~(pc' = "failed" /\ error'.t = "ParserError")]_allVars

\* C16: a second assignment to v, on a later line, has been refused and the
\* table holds the first.
C16_Witness ==
    /\ pc = "failed"
    /\ error.message = <<"variable \"%s\" defined twice", <<"v">>>>
    /\ nlines >= 3
    /\ vars = <<<<<<"v">>, 1, <<"2">>>>>>

\* The passes handle_rule makes over a rule node: one for its fragments
\* without the marker, one for its fragments with it.
Passes(n) ==
    (IF LocalFragments(n) # <<>> THEN 1 ELSE 0)
    + (IF ReferenceFragments(n) # <<>> THEN 1 ELSE 0)
IsMixed(n) == Passes(n) = 2

\* C17 as stated: every rule node with properties has exactly one entry in
\* the flat result, also when its selector line mixes fragments with and
\* without the marker.
C17_EmittedExactlyOnce ==
    Flattened =>
        \A n \in RuleNodes :
            rules[n].defs # <<>> => Cardinality(EntriesOf(n)) = 1

\* C17: the properties of a rule node are emitted once per pass over the
\* node, and the node is walked once per pass over each of its ancestors:
\* a node has as many entries as the product of the passes on its chain,
\* which is one when no selector line of the chain is mixed.
C17_EmittedOncePerPass ==
    Flattened =>
        \A n \in RuleNodes :
            rules[n].defs # <<>> =>
                Cardinality(EntriesOf(n))
                    = Product([i \in 1..Len(ChainOf(n)) |-> Passes(ChainOf(n)[i])])

\* C17 witness: a nested rule with a mixed selector line, with properties,
\* was flattened, next to a rule that is not mixed.
C17_Witness ==
    /\ pc = "done"
    /\ \E n, m \in RuleNodes :
          /\ IsMixed(n) /\ ParentOf(n) # 1 /\ rules[n].defs # <<>>
          /\ Cardinality(EntriesOf(n)) = 2
          /\ ~IsMixed(m) /\ rules[m].defs # <<>>
          /\ Cardinality(EntriesOf(m)) = 1

\* C21: when the evaluation of a variable has finished, with a value or
\* with an evaluation error raised at any depth, every entry of the context
\* is the expression it was before, and no entry is the sentinel of a
\* variable being resolved.
C21_ContextRestored ==
    vout # NoOutcome =>
        /\ vctx = vtable
        /\ \A n \in DOMAIN vctx : vctx[n].t # "FailingVar"

\* C21 witness: the request ran through a variable that is not on the cycle
\* into a cycle, the circular-dependency error was raised below the top, and
\* the context is as it was.
C21_Witness ==
    /\ vout # NoOutcome /\ vout.t = "EvalException"
    /\ vout.message[1] = "Circular variable dependencies detected when resolving %s."
    /\ vout.message[2] # vreq
    /\ vctx = vtable

\* The lines that open a rule, and the rule node each of them made: the
\* nodes are made in the order of their lines, behind the root.
IsHeader(i) == Stripped(i) # EndMarker /\ EndsWith(Stripped(i), <<":">>)
NodeOfLine(i) == 1 + Cardinality({j \in 1..i : IsHeader(j)})
LineOfNode(n) == CHOOSE i \in 1..Len(source) : IsHeader(i) /\ NodeOfLine(i) = n
\* The rule whose block is the innermost block open at the opening line of
\* node n: the root for a line with no less indented line above it.
EnclosingRule(n) ==
    IF OpenerOf(LineOfNode(n)) = 0 THEN 1 ELSE NodeOfLine(OpenerOf(LineOfNode(n)))
\* A rule line with nothing in its block, followed by a line.
Bodiless(i) ==
    IsHeader(i) /\ i < Len(source) /\ IndentOf(i + 1) <= IndentOf(i)

\* C26 as stated: in the rule tree of every accepted source the parent of a
\* rule node is the rule whose block encloses the node's opening line, the
\* root for a line at indentation 0.
C26_ParentIsEnclosingRule ==
    Preparsed => \A n \in RuleNodes : ParentOf(n) = EnclosingRule(n)

\* C26, what holds: the parents are the enclosing rules in every accepted
\* source in which each rule line is followed by a deeper line or by nothing.
C26_ParentWhenRulesHaveBlocks ==
    (Preparsed /\ \A i \in 1..Len(source) : ~Bodiless(i))
    => \A n \in RuleNodes : ParentOf(n) = EnclosingRule(n)

\* A rule line at indentation 0 became the child of a rule: the rule line
\* before it had no block and was followed by a dedent.
C26_TopLevelRuleNested ==
    /\ pc = "done"
    /\ \E n \in RuleNodes :
          /\ IndentOf(LineOfNode(n)) = 0
          /\ ParentOf(n) # 1
          /\ rules[n].defs # <<>>

\* The property declared on line i inside a group-block stands in the
\* property list of a rule, under its prefixed key.
Hoisted(i) ==
    \E n \in RuleNodes : \E k \in 1..Len(rules[n].defs) :
        /\ rules[n].defs[k][2] = GroupPrefix(i) \o <<"-">> \o _def_re(Stripped(i))[1]
        /\ rules[n].defs[k][3] = _def_re(Stripped(i))[2]
ExplicitEnd == \E i \in 1..Len(source) : Stripped(i) = EndMarker

\* C29 as stated: when preparse has finished without error, at the
\* synthetic marker or at an '__END__' line, no group-block is open with
\* properties and every property declared in a group-block stands in a
\* rule's property list.
C29_NoGroupBlockLeftOpen ==
    Preparsed =>
        /\ \A b \in 1..Len(group_block_stack) : group_block_stack[b][2] = <<>>
        /\ \A i \in 1..Len(source) : DeclaredInGroup(i) => Hoisted(i)

\* C29, what holds: at the synthetic marker no group-block holds a property
\* and the properties of every group-block stand in a rule's property list.
C29_FlushedAtSyntheticMarker ==
    (Preparsed /\ ~ExplicitEnd) =>
        /\ \A b \in 1..Len(group_block_stack) : group_block_stack[b][2] = <<>>
        /\ \A i \in 1..Len(source) : DeclaredInGroup(i) => Hoisted(i)

\* An '__END__' line inside a group-block ended the parse with a property
\* of the block in no rule, and the output is empty.
C29_PropertyLostAtEnd ==
    /\ pc = "done" /\ ExplicitEnd
    /\ \E i \in 1..Len(source) : DeclaredInGroup(i) /\ ~Hoisted(i)
    /\ group_block_stack # <<>>
    /\ css = <<>>

(***************************************************************************)
(* LineIterator: the scanner that hands the structural parser its lines.   *)
(***************************************************************************)
\* text.find(sub, start) with positions counted from 1: the least position
\* at or behind start where sub begins, 0 when there is none.
Find(text, sub, start) ==
    LET hits == {i \in start..(Len(text) - Len(sub) + 1) :
                    SubSeq(text, i, i + Len(sub) - 1) = sub}
    IN  IF hits = {} THEN 0 ELSE CHOOSE i \in hits : \A j \in hits : i <= j

\* _line_comment_re.sub('', text): the text up to the first '//' that does
\* not follow a colon.
StripLineComment(text) ==
    LET hits == {i \in 1..(Len(text) - 1) :
                    /\ text[i] = "/" /\ text[i + 1] = "/"
                    /\ (i = 1 \/ text[i - 1] # ":")}
    IN  IF hits = {} THEN text
        ELSE SubSeq(text, 1, (CHOOSE i \in hits : \A j \in hits : i <= j) - 1)

\* _read_line from the accumulated text `line`: [line, lineno, stop], stop
\* being the StopIteration of the exhausted iterator.
RECURSIVE _read_line(_, _, _)
_read_line(lines, lineno, line) ==
    IF Strip(line) # <<>> THEN [line |-> line, lineno |-> lineno, stop |-> FALSE]
    ELSE IF lineno >= Len(lines)
    THEN [line |-> line, lineno |-> lineno, stop |-> TRUE]
    ELSE _read_line(lines, lineno + 1,
                    line \o RStrip(StripLineComment(lines[lineno + 1])))

\* The `while True` loop of _next behind an open block comment:
\* [line, lineno, stop].
RECURSIVE CommentBody(_, _, _)
CommentBody(lines, lineno, stripped_line) ==
    With(_read_line(lines, lineno, <<>>), LAMBDA r :
      IF r.stop THEN r
      ELSE IF Find(r.line, <<"*", "/">>, 1) > 0
      THEN [line |-> stripped_line
                       \o Drop(r.line, Find(r.line, <<"*", "/">>, 1) + 1),
            lineno |-> r.lineno, stop |-> FALSE]
      ELSE CommentBody(lines, r.lineno, stripped_line))

\* _next: [kind, lineno (self.lineno afterwards), start, value], kind being
\* "line" with value the (lineno, line) pair returned, "StopIteration", or
\* "ParserError" with value the exception.
_next(lines, lineno) ==
    With(_read_line(lines, lineno, <<>>), LAMBDA r :
      LET comment_start == Find(r.line, <<"/", "*">>, 1)
          stripped_line == SubSeq(r.line, 1, comment_start - 1)
          comment_end == Find(r.line, <<"*", "/">>, comment_start)
      IN  IF r.stop
          THEN [kind |-> "StopIteration", lineno |-> r.lineno, start |-> 0,
                value |-> NoOutcome]
          ELSE IF comment_start = 0
          THEN [kind |-> "line", lineno |-> r.lineno, start |-> 0,
                value |-> <<r.lineno, r.line>>]
          ELSE IF comment_end > 0
          THEN [kind |-> "line", lineno |-> r.lineno, start |-> 0,
                value |-> <<r.lineno, stripped_line \o Drop(r.line, comment_end + 1)>>]
          ELSE With(CommentBody(lines, r.lineno, stripped_line), LAMBDA body :
                 IF body.stop
                 THEN [kind |-> "ParserError", lineno |-> body.lineno,
                       start |-> r.lineno,
                       value |-> ParserError(body.lineno,
                                   <<"missing end of multiline comment">>)]
                 ELSE [kind |-> "line", lineno |-> body.lineno,
                       start |-> r.lineno,
                       value |-> <<r.lineno, body.line>>]))

(***************************************************************************)
(* Specification SpecScan: next() called on a LineIterator over a source   *)
(* of up to MaxPhysical physical lines, until it stops or fails.           *)
(***************************************************************************)
MaxPhysical == 4

PhysicalLines ==
    {<<"a", ":">>, <<>>, <<" ">>, <<"/", "/", "c">>, <<"u", ":", "/", "/", "x">>,
     <<" ", "/", "*", "c", "*", "/">>, <<"b", "/", "*">>, <<"/", "*", "c">>,
     <<"c", "*", "/">>}

RECURSIVE Sources(_)
Sources(n) ==
    IF n = 0 THEN {<<>>}
    ELSE Sources(n - 1)
         \cup {Append(src, l) : src \in {q \in Sources(n - 1) : Len(q) = n - 1},
                                l \in PhysicalLines}

InitScan ==
    /\ li_lines \in Sources(MaxPhysical)
    /\ li_lineno = 0
    /\ li_emit_endmarker \in BOOLEAN
    /\ start_lineno = 0
    /\ li_out = <<>>
    /\ li_error = NoOutcome
    /\ li_pc = "iterating"
    /\ IdleArith
    /\ IdleVars
    /\ IdleCss
    /\ IdleComp
    /\ IdleExpr
    /\ IdleRender

\* LineIterator.next: _next, and the end marker behind the last line.
NextLine ==
    /\ li_pc = "iterating"
    /\ \E r \in {_next(li_lines, li_lineno)} :
          /\ li_lineno' = r.lineno
          /\ start_lineno' = r.start
          /\ IF r.kind = "line"
             THEN /\ li_out' = Append(li_out, r.value)
                  /\ UNCHANGED <<li_emit_endmarker, li_error, li_pc>>
             ELSE IF r.kind = "ParserError"
             THEN /\ li_error' = r.value
                  /\ li_pc' = "failed"
                  /\ UNCHANGED <<li_emit_endmarker, li_out>>
             ELSE IF li_emit_endmarker
             THEN /\ li_emit_endmarker' = FALSE
                  /\ li_out' = Append(li_out, <<r.lineno, EndMarker>>)
                  /\ UNCHANGED <<li_error, li_pc>>
             ELSE /\ li_pc' = "stopped"
                  /\ UNCHANGED <<li_emit_endmarker, li_out, li_error>>
    /\ UNCHANGED <<li_lines, arithVars, varVars, cssVars, compVars, exprVars,
                   renderVars>>

NextScan == NextLine

SpecScan == InitScan /\ [][NextScan]_allVars

(***************************************************************************)
(* Claims on the scanner (SpecScan).                                        *)
(***************************************************************************)
\* C13 (as claimed): the error 'missing end of multiline comment' reports
\* the line on which the comment started, however many lines follow it.
C13_ReportsStartLine ==
    li_pc = "failed"
    => /\ li_error.message = <<"missing end of multiline comment">>
       /\ li_error.lineno = start_lineno

\* C13 (what the code does): the error reports self.lineno, the last
\* physical line read, which is the last line of the source.
C13_ReportsLastLineRead ==
    li_pc = "failed"
    => /\ li_error.t = "ParserError"
       /\ li_error.message = <<"missing end of multiline comment">>
       /\ li_error.lineno = li_lineno
       /\ li_lineno = Len(li_lines)
       /\ start_lineno \in 1..li_lineno

\* C14 (as claimed): no logical line the iterator hands out is empty or
\* whitespace-only.
C14_NoBlankLogicalLine ==
    \A i \in 1..Len(li_out) : Strip(li_out[i][2]) # <<>>

\* C14 (what the code does): a line is handed out blank only when a block
\* comment was cut out of it; lines without one are never blank.
C14_BlankOnlyBehindBlockComment ==
    \A i \in 1..Len(li_out) :
        Strip(li_out[i][2]) = <<>>
        => Find(li_lines[li_out[i][1]], <<"/", "*">>, 1) > 0

(***************************************************************************)
(* The compressor: Compressor, CssCompressor and JsCompressor split a block *)
(* of markup into linked files and inline hunks, read and filter them, and  *)
(* join them.  Text is a sequence of characters; an element of the block    *)
(* is a record of its tag name and the attributes the code reads.           *)
(***************************************************************************)
MEDIA_URL == <<"/", "m", "/">>
MEDIA_ROOT == <<"/", "r">>
\* The keys of settings.COMPILER_FORMATS.
COMPILER_FORMATS == {<<".", "x">>}
DotCss == <<".", "c", "s", "s">>

Element(name, rel, url, type, string) ==
    [name |-> name, rel |-> rel, url |-> url, type |-> type, string |-> string]
Link(rel, href) == Element("link", rel, href, "", <<>>)
Style(type, string) == Element("style", "", <<>>, type, string)
Script(src, string) == Element("script", "", src, "", string)

Raises(kind) == [t |-> kind]
Raised(o) == o.exc # NoOutcome

\* os.path.splitext: the text before the last dot of the last component,
\* and the extension with its dot.
Splitext(path) ==
    LET dots == {i \in 1..Len(path) :
                    path[i] = "." /\ \A j \in i..Len(path) : path[j] # "/"}
        last == CHOOSE i \in dots : \A j \in dots : j <= i
    IN  IF dots = {} THEN <<path, <<>>>>
        ELSE <<SubSeq(path, 1, last - 1), SubSeq(path, last, Len(path))>>

\* Compressor.get_filename on a normalised url: the file under MEDIA_ROOT,
\* or UncompressableFileError for a url outside the media url.
get_filename(url) ==
    IF ~StartsWithAt(url, 1, MEDIA_URL)
    THEN [exc |-> Raises("UncompressableFileError"), value |-> <<>>]
    ELSE [exc |-> NoOutcome,
          value |-> MEDIA_ROOT \o <<"/">> \o Drop(url, Len(MEDIA_URL))]

\* The files of the media root that are no compiler's output; the block
\* may link a file n.css that is not among them.
SourceFiles ==
    {MEDIA_ROOT \o <<"/", "a", ".", "c", "s", "s">>,
     MEDIA_ROOT \o <<"/", "b", ".", "x">>,
     MEDIA_ROOT \o <<"/", "a", ".", "j", "s">>}
\* fd.read() of a file: every file holds its own text.
FileData(filename) == <<"@">> \o Drop(filename, Len(MEDIA_ROOT) + 1)
\* What the compiler writes for a text.
Compiled(data) == <<"{">> \o data \o <<"}">>

\* CssCompressor.recompile
recompile(filename, compiled) ==
    \/ (Splitext(filename)[1] \o DotCss) \notin compiled
    \/ source_newer

\* The compressor as one record: the attributes a call may change, the
\* files on disk, and what the call returned (value) or raised (exc).
Compressor ==
    [split_content |-> split_content, _hunks |-> _hunks, _output |-> _output,
     compiled |-> compiled_files, exc |-> NoOutcome, value |-> <<>>]

\* The branch of CssCompressor.split_contents for a stylesheet link.
CssLink(o, elem) ==
    With(get_filename(elem.url), LAMBDA fn :
      IF Raised(fn) THEN [o EXCEPT !.exc = fn.exc]
      ELSE LET path == Splitext(fn.value)[1]
               ext == Splitext(fn.value)[2]
           IN  IF ext \notin COMPILER_FORMATS
               THEN [o EXCEPT !.split_content = Append(@, <<"file", fn.value, elem>>)]
               ELSE IF recompile(fn.value, o.compiled) /\ ~compiler_ok
               THEN [o EXCEPT !.exc = Raises("Exception")]
               ELSE [o EXCEPT
                       !.compiled = IF recompile(fn.value, o.compiled)
                                    THEN @ \cup {path \o DotCss} ELSE @,
                       !.split_content =
                           Append(@, <<"file", path \o DotCss,
                                       [elem EXCEPT
                                           !.name = "[document]",
                                           !.url = Splitext(elem.url)[1] \o DotCss]>>)])

\* The branch of CssCompressor.split_contents for a style element.
CssStyle(o, elem) ==
    IF elem.type # "" /\ elem.type # "text/css"
    THEN IF ~compiler_ok THEN [o EXCEPT !.exc = Raises("Exception")]
         ELSE [o EXCEPT !.split_content =
                   Append(@, <<"hunk", Compiled(elem.string),
                               Element("str", "", <<>>, "text/css",
                                       Compiled(elem.string))>>)]
    ELSE [o EXCEPT !.split_content = Append(@, <<"hunk", elem.string, elem>>)]

\* soup.findAll({'link': True, 'style': True}) and soup.findAll('script')
findAll(block, names) == SelectSeq(block, LAMBDA e : e.name \in names)

\* for elem in split: ..., in CssCompressor.split_contents
RECURSIVE CssSplitLoop(_, _)
CssSplitLoop(o, split) ==
    IF split = <<>> \/ Raised(o) THEN o
    ELSE CssSplitLoop(
           IF split[1].name = "link" /\ split[1].rel = "stylesheet"
           THEN CssLink(o, split[1])
           ELSE IF split[1].name = "style" THEN CssStyle(o, split[1])
           ELSE o,
           Tail(split))

\* The branch of JsCompressor.split_contents for a script with src: the
\* call of get_filename stands inside the try.
JsFile(o, elem, debug) ==
    With(get_filename(elem.url), LAMBDA fn :
      IF Raised(fn)
      THEN IF debug THEN [o EXCEPT !.exc = fn.exc] ELSE o
      ELSE [o EXCEPT !.split_content = Append(@, <<"file", fn.value, elem>>)])

\* for elem in split: ..., in JsCompressor.split_contents
RECURSIVE JsSplitLoop(_, _)
JsSplitLoop(o, split) ==
    IF split = <<>> \/ Raised(o) THEN o
    ELSE JsSplitLoop(
           IF split[1].url # <<>>
           THEN JsFile(o, split[1], DEBUG)
           ELSE [o EXCEPT !.split_content =
                     Append(@, <<"hunk", split[1].string, split[1]>>)],
           Tail(split))

\* split_contents() of the class of the compressor.
split_contents(o) ==
    IF o.split_content # <<>> THEN [o EXCEPT !.value = o.split_content]
    ELSE With(IF cp_kind = "css"
              THEN CssSplitLoop(o, findAll(cp_block, {"link", "style"}))
              ELSE JsSplitLoop(o, findAll(cp_block, {"script"})),
              LAMBDA done :
                IF Raised(done) THEN done
                ELSE [done EXCEPT !.value = done.split_content])

\* Compressor.filter with the configured filter: the filter marks what it
\* was given with the method it was called for.
filter(text, method) ==
    IF cp_filters THEN <<method, "(">> \o text \o <<")">> ELSE text

\* A hunks loop that keeps one entry for a run of equal kinds.
HunkOf_first_of_kind(o, item) ==
    IF o._hunks.v # <<>> /\ item[1] = "hunk" THEN o
    ELSE [o EXCEPT !._hunks.v = Append(@, filter(item[2], "i"))]

\* One round of the loop of Compressor.hunks.
HunkOf(o, item) ==
    IF item[1] = "hunk"
    THEN [o EXCEPT !._hunks.v = Append(@, filter(item[2], "i"))]
    ELSE IF item[2] \notin SourceFiles \cup o.compiled
    THEN [o EXCEPT !.exc = Raises("IOError")]
    ELSE [o EXCEPT !._hunks.v = Append(@, filter(FileData(item[2]), "i"))]

RECURSIVE HunksLoop(_, _)
HunksLoop(o, items) ==
    IF items = <<>> \/ Raised(o) THEN o
    ELSE HunksLoop(HunkOf(o, items[1]), Tail(items))

\* The property Compressor.hunks.
hunks(o) ==
    IF o._hunks.set /\ o._hunks.v # <<>> THEN [o EXCEPT !.value = o._hunks.v]
    ELSE With(split_contents([o EXCEPT !._hunks = [set |-> TRUE, v |-> <<>>]]),
              LAMBDA spl :
                IF Raised(spl) THEN spl
                ELSE With(HunksLoop(spl, spl.value), LAMBDA done :
                       IF Raised(done) THEN done
                       ELSE [done EXCEPT !.value = done._hunks.v]))

\* Compressor.concat
concat(o) ==
    With(hunks(o), LAMBDA h :
      IF Raised(h) THEN h ELSE [h EXCEPT !.value = Join(h.value, <<"\n">>)])

\* The property Compressor.combined.
combined(o) ==
    IF o._output.set /\ o._output.v # <<>> THEN [o EXCEPT !.value = o._output.v]
    ELSE With(concat(o), LAMBDA c :
           IF Raised(c) THEN c
           ELSE [c EXCEPT !._output = [set |-> TRUE, v |-> filter(c.value, "o")],
                          !.value = filter(c.value, "o")])

(***************************************************************************)
(* Specification SpecComp: one compressor on a block of up to MaxElems      *)
(* elements, and up to MaxCalls calls of split_contents, hunks, concat and  *)
(* combined on it, in any order.                                            *)
(***************************************************************************)
MaxElems == 2
MaxCalls == 3

BlockElements ==
    {Link("stylesheet", MEDIA_URL \o <<"a", ".", "c", "s", "s">>),
     Link("stylesheet", <<"/", "x", "/", "a", ".", "c", "s", "s">>),
     Link("stylesheet", MEDIA_URL \o <<"b", ".", "x">>),
     Link("stylesheet", MEDIA_URL \o <<"n", ".", "c", "s", "s">>),
     Link("icon", MEDIA_URL \o <<"i">>),
     Style("text/css", <<"p">>),
     Style("text/x", <<"q">>),
     Script(MEDIA_URL \o <<"a", ".", "j", "s">>, <<>>),
     Script(<<"/", "x", "/", "a", ".", "j", "s">>, <<>>),
     Script(<<>>, <<"s">>)}

RECURSIVE Blocks(_)
Blocks(n) ==
    IF n = 0 THEN {<<>>}
    ELSE Blocks(n - 1)
         \cup {Append(b, e) : b \in {x \in Blocks(n - 1) : Len(x) = n - 1},
                              e \in BlockElements}

InitComp ==
    /\ cp_kind \in {"css", "js"}
    /\ cp_block \in Blocks(MaxElems)
    /\ DEBUG \in BOOLEAN
    /\ cp_filters \in BOOLEAN
    /\ compiler_ok \in BOOLEAN
    /\ source_newer \in BOOLEAN
    /\ compiled_files \in {{}, {MEDIA_ROOT \o <<"/", "b">> \o DotCss}}
    /\ split_content = <<>>
    /\ _hunks = [set |-> FALSE, v |-> <<>>]
    /\ _output = [set |-> FALSE, v |-> <<>>]
    /\ cp_ret = [call |-> "none", exc |-> NoOutcome, value |-> <<>>]
    /\ cp_calls = 0
    /\ IdleArith
    /\ IdleVars
    /\ IdleCss
    /\ IdleScan
    /\ IdleExpr
    /\ IdleRender

\* What a call leaves behind on the compressor and on disk.
Returns(call, o) ==
    /\ split_content' = o.split_content
    /\ _hunks' = o._hunks
    /\ _output' = o._output
    /\ compiled_files' = o.compiled
    /\ cp_ret' = [call |-> call, exc |-> o.exc,
                  value |-> IF Raised(o) THEN <<>> ELSE o.value]
    /\ cp_calls' = cp_calls + 1
    /\ UNCHANGED <<cp_kind, cp_block, DEBUG, cp_filters, compiler_ok, source_newer,
                   arithVars, varVars, cssVars, scanVars, exprVars, renderVars>>

CallSplitContents ==
    /\ cp_kind # "off" /\ cp_calls < MaxCalls
    /\ Returns("split_contents", split_contents(Compressor))

ReadHunks ==
    /\ cp_kind # "off" /\ cp_calls < MaxCalls
    /\ Returns("hunks", hunks(Compressor))

CallConcat ==
    /\ cp_kind # "off" /\ cp_calls < MaxCalls
    /\ Returns("concat", concat(Compressor))

ReadCombined ==
    /\ cp_kind # "off" /\ cp_calls < MaxCalls
    /\ Returns("combined", combined(Compressor))

NextComp == CallSplitContents \/ ReadHunks \/ CallConcat \/ ReadCombined

SpecComp == InitComp /\ [][NextComp]_allVars

(***************************************************************************)
(* Claims on the compressor (SpecComp).                                     *)
(***************************************************************************)
\* The elements of the block the compressor looks at, in document order.
Selected ==
    IF cp_kind = "css" THEN findAll(cp_block, {"link", "style"})
    ELSE findAll(cp_block, {"script"})
\* A linked file, and an inline block, of the class of the compressor.
IsLinked(e) ==
    IF cp_kind = "css" THEN e.name = "link" /\ e.rel = "stylesheet"
    ELSE e.name = "script" /\ e.url # <<>>
IsInline(e) ==
    IF cp_kind = "css" THEN e.name = "style"
    ELSE e.name = "script" /\ e.url = <<>>
OutsideMedia(e) == IsLinked(e) /\ SubSeq(e.url, 1, Len(MEDIA_URL)) # MEDIA_URL
\* The elements that stay when the files outside the media url are left out.
Kept == SelectSeq(Selected, LAMBDA e : (IsLinked(e) \/ IsInline(e)) /\ ~OutsideMedia(e))

\* A call of split_contents that scans the block (nothing is memoized), on
\* a block with a linked file outside the media url, where no compiler fails.
ScanOfOutsideFile ==
    /\ cp_ret'.call = "split_contents" /\ cp_calls' = cp_calls + 1
    /\ split_content = <<>>
    /\ compiler_ok
    /\ \E i \in 1..Len(Selected) : OutsideMedia(Selected[i])

\* C18 as stated: with DEBUG the scan raises UncompressableFileError;
\* without DEBUG it raises nothing and returns the other elements, for the
\* CSS compressor as for the JS compressor.
C18_SkippedUnlessDebug ==
    [][ScanOfOutsideFile
       => IF DEBUG
          THEN cp_ret'.exc = Raises("UncompressableFileError")
          ELSE /\ cp_ret'.exc = NoOutcome
               /\ Len(cp_ret'.value) = Len(Kept)
               /\ \A i \in 1..Len(Kept) : cp_ret'.value[i][1]
                      = (IF IsLinked(Kept[i]) THEN "file" ELSE "hunk")]_allVars

\* C18, JS compressor: the scan follows DEBUG.
C18_JsFollowsDebug ==
    [][ScanOfOutsideFile /\ cp_kind = "js"
       => IF DEBUG
          THEN cp_ret'.exc = Raises("UncompressableFileError")
          ELSE /\ cp_ret'.exc = NoOutcome
               /\ cp_ret'.value =
                    [i \in 1..Len(Kept) |->
                        IF IsLinked(Kept[i])
                        THEN <<"file", MEDIA_ROOT \o <<"/">>
                                       \o SubSeq(Kept[i].url, Len(MEDIA_URL) + 1,
                                                 Len(Kept[i].url)),
                               Kept[i]>>
                        ELSE <<"hunk", Kept[i].string, Kept[i]>>]]_allVars

\* C18, CSS compressor: the scan raises UncompressableFileError whatever
\* DEBUG is.
C18_CssRaisesWhateverDebug ==
    [][ScanOfOutsideFile /\ cp_kind = "css"
       => cp_ret'.exc = Raises("UncompressableFileError")]_allVars

\* The CSS compressor raised on a file outside the media url without DEBUG.
C18_CssRaisedWithoutDebug ==
    /\ cp_kind = "css" /\ ~DEBUG /\ compiler_ok
    /\ cp_ret.call = "split_contents"
    /\ cp_ret.exc = Raises("UncompressableFileError")
\* The JS compressor left a file outside the media url out without DEBUG.
C18_JsSkippedWithoutDebug ==
    /\ cp_kind = "js" /\ ~DEBUG
    /\ cp_ret.call = "split_contents" /\ cp_ret.exc = NoOutcome
    /\ Len(cp_ret.value) = 1 /\ Len(Selected) = 2
    /\ \E i \in 1..2 : OutsideMedia(Selected[i])

\* The content entry Compressor.hunks is to hold for an entry of
\* split_contents: the text of the hunk or of the file, through the input
\* filter when one is configured.
Processed(item) ==
    LET text == IF item[1] = "hunk" THEN item[2]
                ELSE <<"@">> \o SubSeq(item[2], Len(MEDIA_ROOT) + 2, Len(item[2]))
    IN  IF cp_filters THEN <<"i", "(">> \o text \o <<")">> ELSE text
NeedsCompiler(e) ==
    \/ e.name = "style" /\ e.type \notin {"", "text/css"}
    \/ e.name = "link" /\ Len(e.url) >= 2
         /\ SubSeq(e.url, Len(e.url) - 1, Len(e.url)) \in COMPILER_FORMATS
\* A call was made and returned.
Returned(call) ==
    /\ cp_calls' = cp_calls + 1
    /\ cp_ret'.call = call /\ cp_ret'.exc = NoOutcome

Candidates == SelectSeq(Selected, LAMBDA e : IsLinked(e) \/ IsInline(e))
\* A call of split_contents or hunks on a compressor whose last call raised.
CallAfterFailure ==
    /\ cp_calls' = cp_calls + 1
    /\ cp_ret.call # "none" /\ cp_ret.exc # NoOutcome
    /\ cp_ret'.call \in {"split_contents", "hunks"}

\* C30: a call of split_contents or hunks that follows a failed call on the
\* same compressor raises again or returns one entry for every linked file
\* and inline block of the block, never a shorter list.
C30_NoPartialMemo ==
    [][CallAfterFailure
       => \/ cp_ret'.exc # NoOutcome
          \/ Len(cp_ret'.value) = Len(Candidates)]_allVars

\* C30, what holds: a call that follows a failed call returns, when it
\* returns, the list the failed call left on the compressor, and raises
\* again when the failed call left none.
C30_ReturnsWhatFailureLeft ==
    [][CallAfterFailure
       => /\ (split_content = <<>> /\ _hunks.v = <<>>) => cp_ret'.exc # NoOutcome
          /\ (cp_ret'.exc = NoOutcome /\ cp_ret'.call = "split_contents")
                => cp_ret'.value = split_content
          /\ (cp_ret'.exc = NoOutcome /\ cp_ret'.call = "hunks" /\ _hunks.v # <<>>)
                => cp_ret'.value = _hunks.v]_allVars

\* C30: split_contents has returned the one entry that a failed scan of a
\* block of two stylesheets left behind.
C30_ShorterListReturned ==
    /\ cp_kind = "css" /\ cp_calls = 2
    /\ cp_ret.call = "split_contents" /\ cp_ret.exc = NoOutcome
    /\ Len(Candidates) = 2 /\ Len(cp_ret.value) = 1

\* C30: hunks has returned the one text that a read failing at the second
\* file left behind.
C30_ShorterHunksReturned ==
    /\ cp_kind = "css" /\ cp_calls = 2
    /\ cp_ret.call = "hunks" /\ cp_ret.exc = NoOutcome
    /\ Len(split_content) = 2 /\ Len(cp_ret.value) = 1

(***************************************************************************)
(* Specification SpecExpr: Parser.parse_expr on an expression of three      *)
(* operands and two binary operators, and the evaluation of the tree it     *)
(* returns.                                                                  *)
(***************************************************************************)
ExprTerms == {<<"2">>, <<"3">>, <<"4">>, <<"8">>}
ExprOps == {BinOpChars[i] : i \in 1..Len(BinOpChars)}

\* What may stand behind the last operand: nothing, a further operand, a
\* closing parenthesis that nothing opened, with and without more behind it.
ExprTails ==
    {<<>>, <<" ", "5">>, <<" ", ")">>, <<" ", ")", " ", "5">>}

\* The expression as written: the operands and operators, one space apart,
\* and the tail.
ExprText ==
    ex_terms[1] \o <<" ", ex_ops[1], " ">> \o ex_terms[2]
                \o <<" ", ex_ops[2], " ">> \o ex_terms[3] \o ex_tail

InitExpr ==
    /\ ex_terms \in [1..3 -> ExprTerms]
    /\ ex_ops \in [1..2 -> ExprOps]
    /\ ex_tail \in ExprTails
    /\ ex_tree = NoOutcome
    /\ ex_value = NoOutcome
    /\ ex_pc = "parse"
    /\ IdleArith
    /\ IdleVars
    /\ IdleCss
    /\ IdleScan
    /\ IdleComp
    /\ IdleRender

\* Parser.parse_expr(lineno, s)
ParseExpression ==
    /\ ex_pc = "parse"
    /\ ex_tree' = parse_expr(1, ExprText)
    /\ ex_pc' = "evaluate"
    /\ UNCHANGED <<ex_terms, ex_ops, ex_tail, ex_value, arithVars, varVars, cssVars,
                   scanVars, compVars, renderVars>>

\* expr.evaluate(context) and to_string, as Engine.evaluate calls them.
EvaluateExpression ==
    /\ ex_pc = "evaluate"
    /\ ex_value' = IF IsExc(ex_tree) THEN ex_tree
                   ELSE to_string(ex_tree, EmptyContext)
    /\ ex_pc' = "done"
    /\ UNCHANGED <<ex_terms, ex_ops, ex_tail, ex_tree, arithVars, varVars, cssVars,
                   scanVars, compVars, renderVars>>

NextExpr == ParseExpression \/ EvaluateExpression

SpecExpr == InitExpr /\ [][NextExpr]_allVars

(***************************************************************************)
(* Claims on the expression parser (SpecExpr).                              *)
(***************************************************************************)
\* The expression of the three operands, with nothing behind it, was parsed.
Parsed == ex_pc \in {"evaluate", "done"} /\ ex_tail = <<>>
OpIndex(op) == CHOOSE i \in 1..Len(BinOpChars) : BinOpChars[i] = op
\* The two levels of the claim: additive, multiplicative.
LevelOfOp(op) == IF op \in {"+", "-"} THEN 1 ELSE 2

\* The tree without its line numbers: <<class, left, right>> for a binary
\* node, the node itself for an operand.
RECURSIVE Shape(_)
Shape(n) ==
    IF n.t \in BinOps THEN <<n.t, Shape(n.left), Shape(n.right)>> ELSE <<n>>
Leaf(i) == <<parse_expr(1, ex_terms[i])>>
\* (a o1 b) o2 c, and a o1 (b o2 c)
LeftGrouped ==
    <<BinClasses[OpIndex(ex_ops[2])],
      <<BinClasses[OpIndex(ex_ops[1])], Leaf(1), Leaf(2)>>, Leaf(3)>>
RightGrouped ==
    <<BinClasses[OpIndex(ex_ops[1])], Leaf(1),
      <<BinClasses[OpIndex(ex_ops[2])], Leaf(2), Leaf(3)>>>>

\* C20 as stated: '+' and '-' form one level and '*', '/' and '%' a higher
\* one; a o1 b o2 c is a o1 (b o2 c) when o2 is of the higher level and o1
\* of the lower, and (a o1 b) o2 c otherwise.
C20_TwoLevelsLeftToRight ==
    Parsed =>
        Shape(ex_tree) = IF LevelOfOp(ex_ops[2]) > LevelOfOp(ex_ops[1])
                         THEN RightGrouped ELSE LeftGrouped

\* C20, what the parser does: '+', '-', '*', '/', '%' are five levels, each
\* binding tighter than the one before; a o1 b o2 c is a o1 (b o2 c)
\* whenever o2 stands behind o1 in this order, and (a o1 b) o2 c otherwise.
C20_FiveLevels ==
    Parsed =>
        Shape(ex_tree) = IF OpIndex(ex_ops[2]) > OpIndex(ex_ops[1])
                         THEN RightGrouped ELSE LeftGrouped

\* C20, the part that holds: a multiplicative operator binds tighter than an
\* additive one on either side of it.
C20_MultiplicativeBindsTighter ==
    Parsed =>
        /\ LevelOfOp(ex_ops[2]) > LevelOfOp(ex_ops[1]) => Shape(ex_tree) = RightGrouped
        /\ LevelOfOp(ex_ops[1]) > LevelOfOp(ex_ops[2]) => Shape(ex_tree) = LeftGrouped

\* `2 * 3 % 4` was parsed as 2 * (3 % 4) and evaluated to 6.
C20_TimesModReached ==
    /\ ex_pc = "done"
    /\ ex_terms = <<<<"2">>, <<"3">>, <<"4">>>> /\ ex_ops = <<"*", "%">>
    /\ ex_tail = <<>>
    /\ Shape(ex_tree) = RightGrouped
    /\ ex_value.t = "unicode" /\ ex_value.value = <<"6">>

(***************************************************************************)
(* Specification SpecRender: MaxRenders concurrent calls of                 *)
(* CompressorNode.render for one block, that is one cache key, on a shared  *)
(* cache.  Every cache call is one step; the cache may drop the flag (its   *)
(* timeout of 300 seconds, or an eviction) and the output entry (its        *)
(* timeout, or an eviction) at any time.                                    *)
(***************************************************************************)
MaxRenders == 3
Renders == 1..MaxRenders

\* What the cache holds for a flag whose timeout has run out.
Expired_never(flag) == flag
Expired(flag) == "absent"

InitRender ==
    /\ rn_pc = [p \in Renders |-> "get"]
    /\ rn_ret = [p \in Renders |-> ""]
    /\ cache_output = "absent"
    /\ cache_flag = "absent"
    /\ flag_lost = FALSE
    /\ IdleArith
    /\ IdleVars
    /\ IdleCss
    /\ IdleScan
    /\ IdleComp
    /\ IdleExpr

OtherVars == <<arithVars, varVars, cssVars, scanVars, compVars, exprVars>>

\* in_cache = cache.get(compressor.cachekey); if in_cache: return in_cache
GetCached(p) ==
    /\ rn_pc[p] = "get"
    /\ IF cache_output # "absent"
       THEN /\ rn_pc' = [rn_pc EXCEPT ![p] = "done"]
            /\ rn_ret' = [rn_ret EXCEPT ![p] = cache_output]
       ELSE /\ rn_pc' = [rn_pc EXCEPT ![p] = "add"]
            /\ UNCHANGED rn_ret
    /\ UNCHANGED <<cache_output, cache_flag, flag_lost, OtherVars>>

\* added_to_cache = cache.add(in_progress_key, True, 300)
AddFlag(p) ==
    /\ rn_pc[p] = "add"
    /\ IF cache_flag = "absent"
       THEN /\ cache_flag' = "true"
            /\ rn_pc' = [rn_pc EXCEPT ![p] = "output"]
       ELSE /\ rn_pc' = [rn_pc EXCEPT ![p] = "wait"]
            /\ UNCHANGED cache_flag
    /\ UNCHANGED <<rn_ret, cache_output, flag_lost, OtherVars>>

\* output = compressor.output() returns.
Output(p) ==
    /\ rn_pc[p] = "output"
    /\ rn_pc' = [rn_pc EXCEPT ![p] = "set"]
    /\ UNCHANGED <<rn_ret, cache_output, cache_flag, flag_lost, OtherVars>>

\* compressor.output() raises: render ends with the exception.
OutputRaises(p) ==
    /\ rn_pc[p] = "output"
    /\ rn_pc' = [rn_pc EXCEPT ![p] = "raised"]
    /\ UNCHANGED <<rn_ret, cache_output, cache_flag, flag_lost, OtherVars>>

\* cache.set(compressor.cachekey, output, 2591000)
SetOutput(p) ==
    /\ rn_pc[p] = "set"
    /\ cache_output' = "html"
    /\ rn_pc' = [rn_pc EXCEPT ![p] = "reset"]
    /\ UNCHANGED <<rn_ret, cache_flag, flag_lost, OtherVars>>

\* cache.set(in_progress_key, False, 300); return output
ResetFlag(p) ==
    /\ rn_pc[p] = "reset"
    /\ cache_flag' = "false"
    /\ rn_pc' = [rn_pc EXCEPT ![p] = "done"]
    /\ rn_ret' = [rn_ret EXCEPT ![p] = "html"]
    /\ UNCHANGED <<cache_output, flag_lost, OtherVars>>

\* while cache.get(in_progress_key): sleep(0.1)
Poll(p) ==
    /\ rn_pc[p] = "wait"
    /\ rn_pc' = [rn_pc EXCEPT ![p] = IF cache_flag = "true" THEN "wait" ELSE "read"]
    /\ UNCHANGED <<rn_ret, cache_output, cache_flag, flag_lost, OtherVars>>

\* output = cache.get(compressor.cachekey); return output
ReadOutput(p) ==
    /\ rn_pc[p] = "read"
    /\ rn_pc' = [rn_pc EXCEPT ![p] = "done"]
    /\ rn_ret' = [rn_ret EXCEPT ![p] =
                     IF cache_output = "absent" THEN "None" ELSE cache_output]
    /\ UNCHANGED <<cache_output, cache_flag, flag_lost, OtherVars>>

\* The cache drops the flag: 300 seconds have passed since it was set, or
\* the entry was evicted.
DropFlag ==
    /\ cache_flag # "absent"
    /\ cache_flag' = Expired(cache_flag)
    /\ flag_lost' = (flag_lost \/ \E p \in Renders : rn_pc[p] = "output")
    /\ UNCHANGED <<rn_pc, rn_ret, cache_output, OtherVars>>

\* The cache drops the output entry: its timeout has passed, or it was
\* evicted.
DropOutput ==
    /\ cache_output # "absent"
    /\ cache_output' = "absent"
    /\ UNCHANGED <<rn_pc, rn_ret, cache_flag, flag_lost, OtherVars>>

RenderStep(p) ==
    \/ GetCached(p)
    \/ AddFlag(p)
    \/ Output(p)
    \/ OutputRaises(p)
    \/ SetOutput(p)
    \/ ResetFlag(p)
    \/ Poll(p)
    \/ ReadOutput(p)

NextRender ==
    \/ \E p \in Renders : RenderStep(p)
    \/ DropFlag
    \/ DropOutput

SpecRender == InitRender /\ [][NextRender]_allVars

\* Every render keeps running, and a flag that is set is dropped in the end.
FairSpecRender ==
    /\ SpecRender
    /\ \A p \in Renders : WF_allVars(RenderStep(p))
    /\ WF_allVars(DropFlag)

(***************************************************************************)
(* Claims on CompressorNode.render (SpecRender, FairSpecRender).            *)
(***************************************************************************)
Building == {p \in Renders : rn_pc[p] = "output"}

\* C23 as stated: while the in-progress flag is set, at most one render
\* executes compressor.output().
C23_OneBuilderWhileFlagSet ==
    cache_flag = "true" => Cardinality(Building) <= 1

\* C23, what holds: a render starts to build only by setting a flag that
\* was absent, and as long as no flag was dropped under a running build at
\* most one render builds.
C23_OneBuilderPerFlag ==
    [][/\ \A p \in Renders :
             (rn_pc[p] # "output" /\ rn_pc'[p] = "output")
             => cache_flag = "absent" /\ cache_flag' = "true"
       /\ ~flag_lost' => Cardinality({p \in Renders : rn_pc'[p] = "output"}) <= 1
      ]_allVars

\* Two renders build at once under a set flag.
C23_TwoBuilders == cache_flag = "true" /\ Cardinality(Building) = 2

\* C24 as stated: a render that returns, returns the output and never None.
C24_NeverReturnsNone ==
    \A p \in Renders : rn_pc[p] = "done" => rn_ret[p] = "html"

\* C24, what holds: a render that returns None took the waiting branch.
C24_OnlyWaitersReturnNone ==
    [][\A p \in Renders :
          (rn_pc'[p] = "done" /\ rn_pc[p] # "done" /\ rn_ret'[p] # "html")
          => rn_pc[p] = "read" /\ rn_ret'[p] = "None" /\ cache_output = "absent"
      ]_allVars

\* A waiting render returned None behind a build that raised.
C24_NoneBehindFailedBuild ==
    \E p, q \in Renders :
        /\ rn_pc[p] = "done" /\ rn_ret[p] = "None"
        /\ rn_pc[q] = "raised"

\* C25: a render in its wait loop leaves the loop and returns in the end.
C25_WaiterReturns ==
    \A p \in Renders : (rn_pc[p] = "wait") ~> (rn_pc[p] = "done")

\* C25 witness: a render left the wait loop and returned although the
\* building render raised and never reset the flag.
C25_Witness ==
    \E p, q \in Renders :
        /\ rn_pc[q] = "raised"
        /\ rn_pc[p] = "done" /\ rn_ret[p] = "None"
        /\ \A r \in Renders : rn_pc[r] \in {"raised", "done"}
        /\ cache_output = "absent"

\* The token the stream stands on when Parser.expr returns to parse_expr.
Leftover ==
    Parser_expr(TokenStream(1, ExprText), FALSE).stream.current

\* C27 as stated: parse_expr either raises a syntax error or returns a tree
\* that took every token of the value; the stream stands at its end.
C27_EveryTokenConsumed ==
    (ex_pc \in {"evaluate", "done"} /\ ~IsExc(ex_tree)) => Leftover = Eof

\* C27, what holds: tokens are left over only from a closing parenthesis
\* that nothing opened; every other value is consumed to its end.
C27_LeftoverOnlyFromClosingParen ==
    (ex_pc \in {"evaluate", "done"} /\ ~IsExc(ex_tree))
    => \/ Leftover = Eof
       \/ Leftover = <<<<")">>, "op">> /\ Contains(ex_tail, ")")

\* `a o b o c ) 5` was accepted and rendered as `a o b o c`.
C27_TailDropped ==
    /\ ex_pc = "done" /\ ex_tail = <<" ", ")", " ", "5">>
    /\ ex_ops = <<"+", "+">> /\ ex_terms = <<<<"2">>, <<"3">>, <<"4">>>>
    /\ ex_value.t = "unicode" /\ ex_value.value = <<"9">>

====
